---- MODULE Spec2Model ----
(***************************************************************************)
(* Conductor bridge (src/conductor/bridge.py): the heartbeat cycle, the    *)
(* session lifecycle manager, the CLI gateway and the chat handlers, and   *)
(* the allow-list authorization exercised by                               *)
(* src/internal/session/test_slack_authorization.py.                       *)
(*                                                                         *)
(* Text is a sequence of one-character strings.  A function of the bridge  *)
(* that calls the external tool is an operator yielding the SET of its     *)
(* possible runs, one per behaviour of the tool: a run records whether an  *)
(* exception left the function (exc), the value returned (ret) and the     *)
(* external effects in program order (trace).                              *)
(***************************************************************************)
EXTENDS Integers, Sequences, FiniteSets, TLC

VARIABLES
    profiles,            \* config["profiles"], ordered, first is the default
    authorized_user,     \* config["user_id"]
    heartbeat_interval,  \* config["heartbeat_interval"]
    hbpc,                \* heartbeat task: start, sleep, iter, alert, done, crashed, cancelled
    hbIdx,               \* position of the for loop in profiles
    it,                  \* the iteration of the profile last evaluated in this tick
    evaluated,           \* profiles whose iteration ran in this tick, in order
    raisedInTick,        \* an iteration of this tick raised into the catch-all
    alerts,              \* alert deliveries attempted in this tick, in order
    hpc,                 \* chat handler: idle, answer (awaiting message.answer), done
    h,                   \* the handler invocation in progress
    outbox,              \* message.answer calls of the invocation, in order
    allowed_users,       \* the allow-list closed over by is_slack_authorized
    slack_result,        \* the last authorization decision, with its log entry
    fn_call,             \* a function of the bridge called on its own: name and arguments
    fn_result,           \* what the call gave, once it is over
    main,                \* main(): pc is polling, closing, returned or raised
    cancel,              \* heartbeat_task.cancel() has been called
    closed,              \* bot.session.close(): no, yes, or failed (it raised)
    thread,              \* who runs on the event-loop thread: loop, handler, heartbeat
    plan,                \* per task, the segments still to run, an await between two
    ran,                 \* per task, the invocations of its segment that are over
    inflight             \* the invocations begun and not over, each with its task

hbVars == <<hbpc, hbIdx, it, evaluated, raisedInTick, alerts>>
cfgVars == <<profiles, authorized_user, heartbeat_interval>>
hVars == <<hpc, h, outbox>>
slackVars == <<allowed_users, slack_result>>
fnVars == <<fn_call, fn_result>>
loopVars == <<main, cancel, closed, thread, plan, ran, inflight>>
vars == <<cfgVars, hbVars, hVars, slackVars, fnVars, loopVars>>

\* ------------------------------------------------------------------ bounds

MaxProfiles == 2
MaxAllowed == 2
MaxTextLen == 5
MaxChunkLen == 3

\* ------------------------------------------------------------------- text

TitlePrefix == <<"c","o","n","d","u","c","t","o","r","-">>
NeedMarker == <<"N","E","E","D",":">>
AlertHead == <<"C","o","n","d","u","c","t","o","r"," ","a","l","e","r","t",":","\n">>
ProjectOpen == <<" ","(","p","r","o","j","e","c","t",":"," ">>
Untitled == <<"u","n","t","i","t","l","e","d">>
CommaSpace == <<",", " ">>
ConductorDir == <<"~","/",".","a","g","e","n","t","-","d","e","c","k","/","c","o","n","d","u","c","t","o","r","/">>

\* ---- literals of the chat replies and the inbound texts
NoSessionsFound ==
    <<"N","o"," ","s","e","s","s","i","o","n","s"," ","f","o","u","n","d",".">>
SlashP ==
    <<"/","p"," ">>

\* the fixed parts of the heartbeat message
HbText(part) ==
    CASE part = "head" ->
            <<"[","H","E","A","R","T","B","E","A","T","]"," ","[">>
      [] part = "status" ->
            <<"]"," ","S","t","a","t","u","s",":"," ">>
      [] part = "waiting" ->
            <<" ","w","a","i","t","i","n","g",","," ">>
      [] part = "running" ->
            <<" ","r","u","n","n","i","n","g",","," ">>
      [] part = "idle" ->
            <<" ","i","d","l","e",","," ">>
      [] part = "error" ->
            <<" ","e","r","r","o","r",".">>
      [] part = "waiting sessions" ->
            <<"W","a","i","t","i","n","g"," ","s","e","s","s","i","o","n","s",":",
            " ">>
      [] part = "error sessions" ->
            <<"E","r","r","o","r"," ","s","e","s","s","i","o","n","s",":"," ">>
      [] OTHER ->  \* check
            <<"C","h","e","c","k"," ","i","f"," ","a","n","y"," ","n","e","e","d",
            " ","a","u","t","o","-","r","e","s","p","o","n","s","e"," ","o","r"," ",
            "u","s","e","r"," ","a","t","t","e","n","t","i","o","n",".">>

\* the fixed parts of the reply to /start
StartText(part) ==
    CASE part = "active" ->
            <<"C","o","n","d","u","c","t","o","r"," ","b","r","i","d","g","e"," ",
            "a","c","t","i", "v","e",".","\n","P","r","o","f","i","l","e","s",":",
            " ">>
      [] OTHER ->  \* commands
            <<"\n","C","o","m","m","a","n","d","s",":"," ","/","s","t","a","t","u",
            "s"," ","/","s", "e","s","s","i","o","n","s"," ","/","h","e","l","p",
            " ","/","r","e","s","t","a","r", "t","\n","R","o","u","t","e"," ","t",
            "o"," ","p","r","o","f","i","l","e",":"," ","/", "p"," ","<","p","r",
            "o","f","i","l","e",">"," ","<","m","e","s","s","a","g","e",">", " ",
            "o","r"," ","<","p","r","o","f","i","l","e",">",":"," ","<","m","e","s",
            "s","a", "g","e",">","\n","D","e","f","a","u","l","t"," ","p","r","o",
            "f","i","l","e",":"," ">>

\* the fixed parts of the reply to /help
HelpText(part) ==
    CASE part = "commands" ->
            <<"C","o","n","d","u","c","t","o","r"," ","C","o","m","m","a","n","d",
            "s",":","\n","/", "s","t","a","t","u","s"," "," "," "," ","-"," ","A",
            "g","g","r","e","g","a","t","e", "d"," ","s","t","a","t","u","s"," ",
            "a","c","r","o","s","s"," ","a","l","l"," ","p", "r","o","f","i","l",
            "e","s","\n","/","s","e","s","s","i","o","n","s"," "," ","-"," ", "L",
            "i","s","t"," ","a","l","l"," ","s","e","s","s","i","o","n","s"," ","(",
            "a","l", "l"," ","p","r","o","f","i","l","e","s",")","\n","/","r","e",
            "s","t","a","r","t"," ", " "," ","-"," ","R","e","s","t","a","r","t",
            " ","a"," ","c","o","n","d","u","c","t", "o","r"," ","(","d","e","f",
            "a","u","l","t"," ","o","r"," ","s","p","e","c","i","f", "y"," ","p",
            "r","o","f","i","l","e",")","\n","/","h","e","l","p"," "," "," "," ",
            " ", " ","-"," ","T","h","i","s"," ","m","e","s","s","a","g","e","\n",
            "\n","P","r","o","f", "i","l","e","s",":"," ">>
      [] part = "route" ->
            <<"\n","R","o","u","t","e",":"," ","/","p"," ","<","p","r","o","f","i",
            "l","e",">"," ", "<","m","e","s","s","a","g","e",">"," ","o","r"," ",
            "<","p","r","o","f","i","l","e", ">",":"," ","<","m","e","s","s","a",
            "g","e",">","\n","D","e","f","a","u","l","t",":", " ","m","e","s","s",
            "a","g","e","s"," ","g","o"," ","t","o"," ">>
      [] OTHER ->  \* conductor
            <<" ","c","o","n","d","u","c","t","o","r">>

\* the fixed parts of the reply to /status
StatusLabel(part) ==
    CASE part = "total" ->
            <<"T","o","t","a","l",":"," ">>
      [] part = "sessions" ->
            <<" ","s","e","s","s","i","o","n","s">>
      [] part = "running" ->
            <<" "," ","R","u","n","n","i","n","g",":"," ">>
      [] part = "waiting" ->
            <<" "," ","W","a","i","t","i","n","g",":"," ">>
      [] part = "idle" ->
            <<" "," ","I","d","l","e",":"," ">>
      [] OTHER ->  \* error
            <<" "," ","E","r","r","o","r",":"," ">>

\* the fixed parts of the replies to /restart
RestartText(part) ==
    CASE part = "restarting" ->
            <<"R","e","s","t","a","r","t","i","n","g"," ","c","o","n","d","u","c",
            "t","o","r"," ", "f","o","r"," ","[">>
      [] part = "dots" ->
            <<"]",".",".",".">>
      [] part = "conductor" ->
            <<"C","o","n","d","u","c","t","o","r"," ","[">>
      [] part = "restarted" ->
            <<"]"," ","r","e","s","t","a","r","t","e","d",".">>
      [] OTHER ->  \* failed
            <<"R","e","s","t","a","r","t"," ","f","a","i","l","e","d",":"," ">>

\* the fixed parts of the replies to a forwarded message
ForwardText(part) ==
    CASE part = "could not start" ->
            <<"[","C","o","u","l","d"," ","n","o","t"," ","s","t","a","r","t"," ",
            "c","o","n","d", "u","c","t","o","r"," ","f","o","r"," ">>
      [] part = "check" ->
            <<"."," ","C","h","e","c","k"," ","a","g","e","n","t","-","d","e","c",
            "k",".","]">>
      [] part = "failed to send" ->
            <<"[","F","a","i","l","e","d"," ","t","o"," ","s","e","n","d"," ","m",
            "e","s","s","a", "g","e"," ","t","o"," ","c","o","n","d","u","c","t",
            "o","r"," ","[">>
      [] part = "failed tail" ->
            <<"]",".","]">>
      [] OTHER ->  \* typing
            <<".",".",".">>

\* the texts of the inbound messages
InboundText(name) ==
    CASE name = "hello" ->
            <<"h","e","l","l","o">>
      [] name = "/p work hi" ->
            <<"/","p"," ","w","o","r","k"," "," ","h","i"," ","t","h","e","r","e"," ">>
      [] name = "/p ops" ->
            <<"/","p"," ","o","p","s">>
      [] name = "/p unknown hi" ->
            <<"/","p"," ","u","n","k","n","o","w","n"," ","h","i">>
      [] name = "work: ping" ->
            <<"w","o","r","k",":"," "," ","p","i","n","g"," ">>
      [] name = "ops:" ->
            <<"o","p","s",":">>
      [] name = "/start" ->
            <<"/","s","t","a","r","t">>
      [] name = "/status" ->
            <<"/","s","t","a","t","u","s">>
      [] name = "/sessions" ->
            <<"/","s","e","s","s","i","o","n","s">>
      [] name = "/help" ->
            <<"/","h","e","l","p">>
      [] name = "/restart" ->
            <<"/","r","e","s","t","a","r","t">>
      [] name = "/restart work" ->
            <<"/","r","e","s","t","a","r","t"," ","w","o","r","k"," ">>
      [] OTHER ->  \* "/restart nobody"
            <<"/","r","e","s","t","a","r","t"," ","n","o","b","o","d","y">>

Whitespace == {" ", "\n", "\t", "\r"}

\* sub in text
Contains(text, sub) ==
    \E i \in 0..(Len(text) - Len(sub)) : SubSeq(text, i + 1, i + Len(sub)) = sub

\* text.startswith(prefix)
StartsWith(text, prefix) ==
    Len(prefix) <= Len(text) /\ SubSeq(text, 1, Len(prefix)) = prefix

RECURSIVE Strip(_)
\* text.strip()
Strip(text) ==
    IF text = <<>> THEN <<>>
    ELSE IF Head(text) \in Whitespace THEN Strip(Tail(text))
    ELSE IF text[Len(text)] \in Whitespace THEN Strip(SubSeq(text, 1, Len(text) - 1))
    ELSE text

RECURSIVE Join(_, _)
\* sep.join(parts)
Join(sep, parts) ==
    IF parts = <<>> THEN <<>>
    ELSE IF Len(parts) = 1 THEN parts[1]
    ELSE parts[1] \o sep \o Join(sep, Tail(parts))

Digit(n) ==
    CASE n = 0 -> "0" [] n = 1 -> "1" [] n = 2 -> "2" [] n = 3 -> "3"
      [] n = 4 -> "4" [] n = 5 -> "5" [] n = 6 -> "6" [] n = 7 -> "7"
      [] n = 8 -> "8" [] OTHER -> "9"

RECURSIVE Str(_)
\* str(n) of a count
Str(n) == IF n < 10 THEN <<Digit(n)>> ELSE Str(n \div 10) \o <<Digit(n % 10)>>

\* text.lstrip(chars)
LStrip(text, chars) ==
    LET keep == {i \in 1..Len(text) : text[i] \notin chars}
    IN IF keep = {} THEN <<>>
       ELSE SubSeq(text, CHOOSE i \in keep : \A j \in keep : i <= j, Len(text))

\* text.split(None, 1): the first whitespace-delimited token, and the rest if any
SplitOnce(text) ==
    LET t == LStrip(text, Whitespace)
        ws == {i \in 1..Len(t) : t[i] \in Whitespace}
    IN IF t = <<>> THEN <<>>
       ELSE IF ws = {} THEN <<t>>
       ELSE LET k == CHOOSE i \in ws : \A j \in ws : i <= j
                rest == LStrip(SubSeq(t, k + 1, Len(t)), Whitespace)
            IN IF rest = <<>> THEN <<SubSeq(t, 1, k - 1)>>
               ELSE <<SubSeq(t, 1, k - 1), rest>>

\* x in registry
InList(x, list) == \E i \in DOMAIN list : list[i] = x

\* dict.get(key, default) on a decoded JSON object
Get(obj, key, default) == IF key \in DOMAIN obj THEN obj[key] ELSE default

\* ---------------------------------------------------------------- profiles

ProfileOps == <<"o","p","s">>
ProfileWork == <<"w","o","r","k">>
ProfileDev == <<"d","e","v">>
AllProfiles == <<ProfileOps, ProfileWork, ProfileDev, <<"q", "a">>>>

\* the registries the configuration may hold: the first n of the names above
\* (names are distinct; the first is the default)
Registries == {SubSeq(AllProfiles, 1, n) : n \in 1..MaxProfiles}

\* mutant: every profile is given the session of the first one
conductor_session_title_of_default(profile) == TitlePrefix \o ProfileOps

\* f"conductor-{profile}"
conductor_session_title(profile) == TitlePrefix \o profile

\* ------------------------------------------------------------ CLI gateway

\* stdout of the tool: its text, and what json.loads makes of it
Out(text, json) == [text |-> text, json |-> json]
EmptyObj == [k \in {} |-> 0]
JsonInvalid == [kind |-> "invalid", obj |-> EmptyObj, items |-> <<>>]
JsonObject(obj) == [kind |-> "object", obj |-> obj, items |-> <<>>]
JsonArray(items) == [kind |-> "array", obj |-> EmptyObj, items |-> items]
JsonScalar == [kind |-> "scalar", obj |-> EmptyObj, items |-> <<>>]
\* the empty string is not JSON
NoOutput == Out(<<>>, JsonInvalid)

ErrText(kind) ==
    CASE kind = "timeout" -> <<"t","i","m","e","o","u","t">>
      [] kind = "not found" -> <<"n","o","t"," ","f","o","u","n","d">>
      [] kind = "tool" -> <<"b","o","o","m","\n">>

\* what one invocation of the tool may do: exit with a code, run past the
\* timeout, or be missing from PATH
Exit(rc, stdout, stderr) ==
    [kind |-> "exit", rc |-> rc, stdout |-> stdout, stderr |-> stderr]
TimedOut == [kind |-> "timeout", rc |-> 0, stdout |-> NoOutput, stderr |-> <<>>]
Missing == [kind |-> "notfound", rc |-> 0, stdout |-> NoOutput, stderr |-> <<>>]
Failures == {Exit(1, NoOutput, ErrText("tool")), TimedOut, Missing}

\* subprocess.run and the two except clauses of run_cli
CompletedProcess(b) ==
    IF b.kind = "timeout"
    THEN [returncode |-> 1, stdout |-> NoOutput, stderr |-> ErrText("timeout")]
    ELSE IF b.kind = "notfound"
    THEN [returncode |-> 1, stdout |-> NoOutput, stderr |-> ErrText("not found")]
    ELSE [returncode |-> b.rc, stdout |-> b.stdout, stderr |-> b.stderr]

\* an external effect: a tool invocation (with the exit code it gave), or a sleep
Event(op, profile, session, text, timeout, rc) ==
    [op |-> op, profile |-> profile, session |-> session, text |-> text,
     timeout |-> timeout, rc |-> rc, val |-> ""]
SleepEvent(seconds) == Event("sleep", <<>>, <<>>, <<>>, seconds, 0)

\* run_cli(*args, profile=profile, timeout=timeout) under each behaviour of the tool
run_cli(op, session, text, profile, timeout, behaviours) ==
    {[result |-> CompletedProcess(b),
      call |-> Event(op, profile, session, text, timeout, CompletedProcess(b).returncode)]
        : b \in behaviours}

\* a run of a function
Return(ret, trace) == [exc |-> FALSE, ret |-> ret, trace |-> trace]
Raise(ret, trace) == [exc |-> TRUE, ret |-> ret, trace |-> trace]

\* `session show --json`: a status (waiting: the conductor is up, at its prompt),
\* no status key, undecodable, not an object, failure
ShowBehaviours ==
    {Exit(0, Out(<<>>, JsonObject([status |-> "waiting"])), <<>>),
     Exit(0, Out(<<>>, JsonObject([status |-> "error"])), <<>>),
     Exit(0, Out(<<>>, JsonObject([title |-> "x"])), <<>>),
     Exit(0, Out(<<>>, JsonInvalid), <<>>),
     Exit(0, Out(<<>>, JsonArray(<<>>)), <<>>)} \cup Failures

\* the status get_session_status makes of a completed `session show`
StatusOf(result) ==
    IF result.returncode # 0 THEN Return("error", <<>>)
    ELSE IF result.stdout.json.kind = "invalid" THEN Return("error", <<>>)
    ELSE IF result.stdout.json.kind # "object" THEN Raise("error", <<>>)
    ELSE Return(Get(result.stdout.json.obj, "status", "error"), <<>>)

get_session_status(session, profile, behaviours) ==
    {[StatusOf(c.result) EXCEPT
        !.trace = <<[c.call EXCEPT !.val =
            IF StatusOf(c.result).exc THEN "raised" ELSE StatusOf(c.result).ret]>>]
        : c \in run_cli("show", session, <<>>, profile, 30, behaviours)}

\* ------------------------------------------------- session lifecycle manager

StartBehaviours == {Exit(0, NoOutput, <<>>)} \cup Failures
AddBehaviours == {Exit(0, NoOutput, <<>>)} \cup Failures

\* time.sleep(5), then the status query whose answer is the result
Settle(session_title, profile, trace) ==
    {[s EXCEPT !.ret = ~s.exc /\ s.ret # "error",
               !.trace = trace \o <<SleepEvent(5)>> \o s.trace]
        : s \in get_session_status(session_title, profile, ShowBehaviours)}

\* the invocations of a set of run_cli results, each with the exit code it gave
Calls(runs) == {r.call : r \in runs}

\* mutant: a failed create does not return
CreateAndStart_ignoring_failure(session_title, profile, trace) ==
    UNION {
        UNION {Settle(session_title, profile, trace \o <<a, c>>)
                : c \in Calls(run_cli("start", session_title, <<>>, profile, 60,
                                      StartBehaviours))}
        : a \in Calls(run_cli("add", session_title, ConductorDir \o profile, profile, 60,
                              AddBehaviours))}

\* the create-then-start branch, taken after a failed start
CreateAndStart(session_title, profile, trace) ==
    UNION {
        IF a.rc # 0
        THEN {Return(FALSE, trace \o <<a>>)}
        ELSE UNION {Settle(session_title, profile, trace \o <<a, c>>)
                : c \in Calls(run_cli("start", session_title, <<>>, profile, 60,
                                      StartBehaviours))}
        : a \in Calls(run_cli("add", session_title, ConductorDir \o profile, profile, 60,
                              AddBehaviours))}

\* mutant: anything but a running session is remediated
ensure_must_start_unless_running(status) == status # "running"

\* if status == "error"
ensure_must_start(status) == status = "error"

ensure_conductor_running(profile) ==
    LET session_title == conductor_session_title(profile)
    IN UNION {
        IF s.exc THEN {Raise(FALSE, s.trace)}
        ELSE IF ensure_must_start(s.ret)
        THEN UNION {
                IF c.rc # 0
                THEN CreateAndStart(session_title, profile, s.trace \o <<c>>)
                ELSE Settle(session_title, profile, s.trace \o <<c>>)
                : c \in Calls(run_cli("start", session_title, <<>>, profile, 60,
                                      StartBehaviours))}
        ELSE {Return(TRUE, s.trace)}
        : s \in get_session_status(session_title, profile, ShowBehaviours)}

\* ------------------------------------------------------------ status, list, send

RESPONSE_TIMEOUT == 300
TG_MAX_LENGTH == 4096

Max(a, b) == IF a >= b THEN a ELSE b

ZeroSummary ==
    JsonObject([waiting |-> 0, running |-> 0, idle |-> 0, error |-> 0, total |-> 0])

\* `status --json`: counters (all five, or only some), not an object, undecodable, failure
StatusBehaviours ==
    {Exit(0, Out(<<>>, JsonObject(
        [waiting |-> 0, running |-> 1, idle |-> 0, error |-> 0, total |-> 1])), <<>>),
     Exit(0, Out(<<>>, JsonObject(
        [waiting |-> 1, running |-> 0, idle |-> 2, error |-> 0, total |-> 3])), <<>>),
     Exit(0, Out(<<>>, JsonObject([error |-> 1])), <<>>),
     Exit(0, Out(<<>>, JsonArray(<<>>)), <<>>),
     Exit(0, Out(<<>>, JsonInvalid), <<>>)} \cup Failures

\* the decoded document, or the all-zero summary
get_status_summary(profile, behaviours) ==
    {Return(IF c.result.returncode # 0 THEN ZeroSummary
            ELSE IF c.result.stdout.json.kind = "invalid" THEN ZeroSummary
            ELSE c.result.stdout.json,
            <<c.call>>)
        : c \in run_cli("status", <<>>, <<>>, profile, 30, behaviours)}

SessionText(field) ==
    CASE field = "build" -> <<"b","u","i","l","d","-","1">>
      [] field = "db" -> <<"d","b">>
      [] field = "repo" -> <<"/","r","e","p","o">>
SessionRecord(title, status, path) ==
    JsonObject([title |-> title, status |-> status, path |-> path])

\* `list --json` of a profile: an object with a sessions key (the conductor's own
\* session among them), a bare array, an array holding a non-object, an object
\* without the key, undecodable, failure
ListBehaviours(profile) ==
    {Exit(0, Out(<<>>, JsonObject([sessions |->
        <<SessionRecord(SessionText("build"), "waiting", SessionText("repo")),
          SessionRecord(conductor_session_title(profile), "waiting", SessionText("repo")),
          SessionRecord(SessionText("db"), "error", <<>>)>>])), <<>>),
     Exit(0, Out(<<>>, JsonArray(
        <<SessionRecord(conductor_session_title(profile), "error", SessionText("repo")),
          JsonObject([status |-> "waiting"])>>)), <<>>),
     Exit(0, Out(<<>>, JsonArray(<<JsonScalar>>)), <<>>),
     Exit(0, Out(<<>>, JsonObject([total |-> 0])), <<>>),
     Exit(0, Out(<<>>, JsonInvalid), <<>>)} \cup Failures

\* the sessions listed, or none; the invocation is recorded with what it gave
get_sessions_list(profile) ==
    {LET sessions == IF c.result.returncode # 0 THEN <<>>
                     ELSE IF c.result.stdout.json.kind = "invalid" THEN <<>>
                     ELSE IF c.result.stdout.json.kind = "object"
                     THEN Get(c.result.stdout.json.obj, "sessions", <<>>)
                     ELSE IF c.result.stdout.json.kind = "array"
                     THEN c.result.stdout.json.items
                     ELSE <<>>
     IN Return(sessions, <<[c.call EXCEPT !.val = sessions]>>)
        : c \in run_cli("list", <<>>, <<>>, profile, 30, ListBehaviours(profile))}

ReplyText(reply) ==
    CASE reply = "need" -> <<"N","E","E","D",":"," ","r","e","v","i","e","w"," ","P","R">>
      [] reply = "inner" -> <<"o","k","\n","N","E","E","D",":"," ","x","\n">>
      [] reply = "lower" -> <<"n","e","e","d",":"," ","x">>
\* a reply that fills a chat message to the last character, and one that has
\* to be split, with a line break near its end
ReplyFull == [i \in 1..TG_MAX_LENGTH |-> "a"]
ReplyLong ==
    [i \in 1..(TG_MAX_LENGTH + 2) |-> IF i = TG_MAX_LENGTH - 1 THEN "\n" ELSE "b"]

\* what the conductor may answer: to a heartbeat nudge a short reply, with or
\* without the marker; to a message of the user also a long one
Replies(message) ==
    {ReplyText("need"), ReplyText("inner"), ReplyText("lower"), <<>>}
    \cup (IF StartsWith(message, HbText("head")) THEN {} ELSE {ReplyFull, ReplyLong})

\* `session send`: the reply on stdout, or failure
SendBehaviours(message) ==
    {Exit(0, Out(r, JsonInvalid), <<>>) : r \in Replies(message)} \cup Failures

\* ret is <<success, response_text>>
send_to_conductor(session, message, profile, wait_for_reply, response_timeout) ==
    {Return(IF c.result.returncode # 0 THEN <<FALSE, <<>>>>
            ELSE <<TRUE, Strip(c.result.stdout.text)>>,
            <<c.call>>)
        : c \in IF wait_for_reply
                THEN run_cli("send --wait", session, message, profile,
                             Max(response_timeout + 30, 60), SendBehaviours(message))
                ELSE run_cli("send --no-wait", session, message, profile, 30,
                             SendBehaviours(message))}

\* ------------------------------------------------------- routing and splitting


\* mutant: "/p <profile>" without a message is no explicit form
parse_profile_prefix_needs_rest(text, registry) ==
    LET parts == IF StartsWith(text, SlashP)
                 THEN SplitOnce(Strip(SubSeq(text, 4, Len(text))))
                 ELSE <<>>
        named == {i \in DOMAIN registry :
                    StartsWith(text, registry[i] \o <<":">>)}
    IN IF Len(parts) >= 2 /\ InList(parts[1], registry)
       THEN <<TRUE, parts[1], parts[2]>>
       ELSE IF named # {}
       THEN LET i == CHOOSE i \in named : \A j \in named : i <= j
            IN <<TRUE, registry[i],
                 Strip(SubSeq(text, Len(registry[i]) + 2, Len(text)))>>
       ELSE <<FALSE, <<>>, text>>

\* mutant: of the names that match, the longest wins
parse_profile_prefix_longest_match(text, registry) ==
    LET parts == IF StartsWith(text, SlashP)
                 THEN SplitOnce(Strip(SubSeq(text, 4, Len(text))))
                 ELSE <<>>
        named == {i \in DOMAIN registry :
                    StartsWith(text, registry[i] \o <<":">>)}
    IN IF Len(parts) >= 2 /\ InList(parts[1], registry)
       THEN <<TRUE, parts[1], parts[2]>>
       ELSE IF Len(parts) = 1 /\ InList(parts[1], registry)
       THEN <<TRUE, parts[1], <<>>>>
       ELSE IF named # {}
       THEN LET i == CHOOSE i \in named :
                        \A j \in named : Len(registry[j]) <= Len(registry[i])
            IN <<TRUE, registry[i],
                 Strip(SubSeq(text, Len(registry[i]) + 2, Len(text)))>>
       ELSE <<FALSE, <<>>, text>>

\* ret is <<found, profile, cleaned_message>>; found = FALSE stands for None
parse_profile_prefix(text, registry) ==
    LET parts == IF StartsWith(text, SlashP)
                 THEN SplitOnce(Strip(SubSeq(text, 4, Len(text))))
                 ELSE <<>>
        named == {i \in DOMAIN registry :
                    StartsWith(text, registry[i] \o <<":">>)}
    IN IF Len(parts) >= 2 /\ InList(parts[1], registry)
       THEN <<TRUE, parts[1], parts[2]>>
       ELSE IF Len(parts) = 1 /\ InList(parts[1], registry)
       THEN <<TRUE, parts[1], <<>>>>
       ELSE IF named # {}
       THEN LET i == CHOOSE i \in named : \A j \in named : i <= j
            IN <<TRUE, registry[i],
                 Strip(SubSeq(text, Len(registry[i]) + 2, Len(text)))>>
       ELSE <<FALSE, <<>>, text>>

\* mutant: without a line break the cut comes one character late
split_at_late(text, max_len) ==
    LET nl == {i \in 1..max_len : text[i] = "\n"}
    IN IF nl = {} THEN max_len + 1
       ELSE (CHOOSE i \in nl : \A j \in nl : j <= i) - 1

\* text.rfind("\n", 0, max_len), or max_len when there is none: the number of
\* characters of the next chunk
split_at(text, max_len) ==
    LET nl == {i \in 1..max_len : text[i] = "\n"}
    IN IF nl = {} THEN max_len
       ELSE (CHOOSE i \in nl : \A j \in nl : j <= i) - 1

\* mutant: the character at the cut is dropped, line break or not
split_rest_dropping(text, at) ==
    LStrip(SubSeq(text, at + 2, Len(text)), {"\n"})

\* text[split_at:].lstrip("\n")
split_rest(text, at) == LStrip(SubSeq(text, at + 1, Len(text)), {"\n"})

RECURSIVE SplitLoop(_, _)
\* the while loop of split_message
SplitLoop(text, max_len) ==
    IF text = <<>> THEN <<>>
    ELSE IF Len(text) <= max_len THEN <<text>>
    ELSE <<SubSeq(text, 1, split_at(text, max_len))>>
            \o SplitLoop(split_rest(text, split_at(text, max_len)), max_len)

split_message(text, max_len) ==
    IF Len(text) <= max_len THEN <<text>> ELSE SplitLoop(text, max_len)

\* ------------------------------------------------------------ heartbeat cycle

\* mutant: the conductor's own session is listed like any other
Details_with_conductor(sessions, session_title, status) ==
    LET listed == SelectSeq(sessions, LAMBDA x : Get(x.obj, "status", "") = status)
    IN [i \in 1..Len(listed) |->
            Get(listed[i].obj, "title", Untitled) \o ProjectOpen
                \o Get(listed[i].obj, "path", <<>>) \o <<")">>]

\* "<title> (project: <path>)" of the listed sessions in `status`, the
\* conductor's own session left out
Details(sessions, session_title, status) ==
    LET listed == SelectSeq(sessions, LAMBDA x :
                    /\ Get(x.obj, "title", Untitled) # session_title
                    /\ Get(x.obj, "status", "") = status)
    IN [i \in 1..Len(listed) |->
            Get(listed[i].obj, "title", Untitled) \o ProjectOpen
                \o Get(listed[i].obj, "path", <<>>) \o <<")">>]

heartbeat_msg(profile, summary, sessions) ==
    LET session_title == conductor_session_title(profile)
        waiting_details == Details(sessions, session_title, "waiting")
        error_details == Details(sessions, session_title, "error")
    IN Join(<<" ">>,
        <<HbText("head") \o profile \o HbText("status")
            \o Str(Get(summary, "waiting", 0)) \o HbText("waiting")
            \o Str(Get(summary, "running", 0)) \o HbText("running")
            \o Str(Get(summary, "idle", 0)) \o HbText("idle")
            \o Str(Get(summary, "error", 0)) \o HbText("error")>>
        \o (IF waiting_details # <<>>
            THEN <<HbText("waiting sessions") \o Join(CommaSpace, waiting_details) \o <<".">>>>
            ELSE <<>>)
        \o (IF error_details # <<>>
            THEN <<HbText("error sessions") \o Join(CommaSpace, error_details) \o <<".">>>>
            ELSE <<>>)
        \o <<HbText("check")>>)

\* mutant: the profile is skipped only when it has no session at all
heartbeat_skip_if_empty(summary) == Get(summary, "total", 0) = 0

\* if waiting == 0 and error == 0: continue
heartbeat_skip(summary) ==
    Get(summary, "waiting", 0) = 0 /\ Get(summary, "error", 0) = 0

\* mutant: the result of ensure_conductor_running is not looked at
heartbeat_ensured_unchecked(running) == TRUE

\* if not ensure_conductor_running(profile): continue
heartbeat_ensured(running) == running

\* mutant: the marker is looked for at the start of the reply only
heartbeat_needs_alert_at_start(response) == StartsWith(response, NeedMarker)

\* if "NEED:" in response
heartbeat_needs_alert(response) == Contains(response, NeedMarker)

\* mutant: the tag names the default profile
heartbeat_prefix_default(profile, registry) ==
    IF Len(registry) > 1 THEN <<"[">> \o registry[1] \o <<"]", " ">> ELSE <<>>

\* prefix = f"[{profile}] " if len(profiles) > 1 else ""
heartbeat_prefix(profile, registry) ==
    IF Len(registry) > 1 THEN <<"[">> \o profile \o <<"]", " ">> ELSE <<>>

\* the text handed to bot.send_message
heartbeat_alert_text(profile, registry, response) ==
    heartbeat_prefix(profile, registry) \o AlertHead \o response

\* one iteration of the for loop, up to its await or its end.  outcome: raised,
\* skip, ensure_failed, send_failed, quiet, alert (bot.send_message is awaited);
\* summary: the counters read; ensure: the run of ensure_conductor_running, if any
Iteration(exc, outcome, profile, summary, ensure, trace, response, alert) ==
    [exc |-> exc, outcome |-> outcome, profile |-> profile, summary |-> summary,
     ensure |-> ensure, trace |-> trace, response |-> response, alert |-> alert]

NoEnsure == [called |-> FALSE, exc |-> FALSE, ret |-> FALSE, trace |-> <<>>]
Ensured(e) == [called |-> TRUE, exc |-> e.exc, ret |-> e.ret, trace |-> e.trace]

heartbeat_send(profile, registry, user, summary, message, e, trace) ==
    {IF ~r.ret[1]
     THEN Iteration(FALSE, "send_failed", profile, summary, Ensured(e),
                    trace \o r.trace, <<>>, <<>>)
     ELSE IF heartbeat_needs_alert(r.ret[2])
     THEN Iteration(FALSE, "alert", profile, summary, Ensured(e),
                    trace \o r.trace, r.ret[2],
                    <<[chat |-> user,
                       text |-> heartbeat_alert_text(profile, registry, r.ret[2])]>>)
     ELSE Iteration(FALSE, "quiet", profile, summary, Ensured(e),
                    trace \o r.trace, r.ret[2], <<>>)
        : r \in send_to_conductor(conductor_session_title(profile), message, profile,
                                  TRUE, RESPONSE_TIMEOUT)}

heartbeat_nudge(profile, registry, user, summary, sessions, trace) ==
    UNION {
        IF e.exc
        THEN {Iteration(TRUE, "raised", profile, summary, Ensured(e),
                        trace \o e.trace, <<>>, <<>>)}
        ELSE IF ~heartbeat_ensured(e.ret)
        THEN {Iteration(FALSE, "ensure_failed", profile, summary, Ensured(e),
                        trace \o e.trace, <<>>, <<>>)}
        ELSE heartbeat_send(profile, registry, user, summary,
                            heartbeat_msg(profile, summary, sessions), e,
                            trace \o e.trace)
        : e \in ensure_conductor_running(profile)}

\* summary is the marker NoSummary when the status document was no object
NoSummary == [none |-> 0]

heartbeat_iteration(profile, registry, user) ==
    UNION {
        IF sm.ret.kind # "object"
        THEN {Iteration(TRUE, "raised", profile, NoSummary, NoEnsure, sm.trace,
                        <<>>, <<>>)}
        ELSE IF heartbeat_skip(sm.ret.obj)
        THEN {Iteration(FALSE, "skip", profile, sm.ret.obj, NoEnsure, sm.trace,
                        <<>>, <<>>)}
        ELSE UNION {
            IF \E i \in DOMAIN ls.ret : ls.ret[i].kind # "object"
            THEN {Iteration(TRUE, "raised", profile, sm.ret.obj, NoEnsure,
                            sm.trace \o ls.trace, <<>>, <<>>)}
            ELSE heartbeat_nudge(profile, registry, user, sm.ret.obj, ls.ret,
                                 sm.trace \o ls.trace)
            : ls \in get_sessions_list(profile)}
        : sm \in get_status_summary(profile, StatusBehaviours)}

\* mutant: no catch-all, the exception ends the task
heartbeat_except_propagates == "crashed"

\* where the loop goes when the body raised: the catch-all logs and goes on
heartbeat_except == "iter"

NoIteration == Iteration(FALSE, "none", <<>>, NoSummary, NoEnsure, <<>>, <<>>, <<>>)

\* mutant: only a negative interval disables the cycle
HeartbeatStart_negative_only ==
    /\ hbpc = "start"
    /\ hbpc' = IF heartbeat_interval < 0 THEN "done" ELSE "sleep"
    /\ UNCHANGED <<cfgVars, hVars, slackVars, fnVars, loopVars, hbIdx, it, evaluated, raisedInTick, alerts>>

\* if interval_minutes <= 0: return
HeartbeatStart ==
    /\ hbpc = "start"
    /\ hbpc' = IF heartbeat_interval <= 0 THEN "done" ELSE "sleep"
    /\ UNCHANGED <<cfgVars, hVars, slackVars, fnVars, loopVars, hbIdx, it, evaluated, raisedInTick, alerts>>

\* await asyncio.sleep(interval_seconds) returns; the for loop begins
HeartbeatWake ==
    /\ hbpc = "sleep"
    /\ hbpc' = "iter"
    /\ hbIdx' = 1
    /\ UNCHANGED <<cfgVars, hVars, slackVars, fnVars, loopVars, it, evaluated, raisedInTick, alerts>>

\* the body of the for loop for profiles[hbIdx], to its await or its end
HeartbeatIteration ==
    /\ hbpc = "iter"
    /\ hbIdx <= Len(profiles)
    /\ \E r \in heartbeat_iteration(profiles[hbIdx], profiles, authorized_user) :
        /\ it' = r
        /\ evaluated' = Append(evaluated, profiles[hbIdx])
        /\ raisedInTick' = (raisedInTick \/ r.exc)
        /\ hbpc' = IF r.exc THEN heartbeat_except
                   ELSE IF r.alert # <<>> THEN "alert" ELSE "iter"
        /\ hbIdx' = IF r.alert # <<>> THEN hbIdx ELSE hbIdx + 1
    /\ UNCHANGED <<cfgVars, hVars, slackVars, fnVars, loopVars, alerts>>

\* await bot.send_message(...) completes, or raises into the inner except
HeartbeatAlert ==
    /\ hbpc = "alert"
    /\ \E delivered \in BOOLEAN :
        alerts' = Append(alerts, [chat |-> it.alert[1].chat, text |-> it.alert[1].text,
                                  profile |-> it.profile, response |-> it.response,
                                  delivered |-> delivered])
    /\ hbpc' = "iter"
    /\ hbIdx' = hbIdx + 1
    /\ UNCHANGED <<cfgVars, hVars, slackVars, fnVars, loopVars, it, evaluated, raisedInTick>>

\* the for loop is exhausted: while True goes back to the sleep
HeartbeatLoop ==
    /\ hbpc = "iter"
    /\ hbIdx > Len(profiles)
    /\ hbpc' = "sleep"
    /\ it' = NoIteration
    /\ evaluated' = <<>>
    /\ raisedInTick' = FALSE
    /\ alerts' = <<>>
    /\ UNCHANGED <<cfgVars, hVars, slackVars, fnVars, loopVars, hbIdx>>

\* ------------------------------------------------------------ status aggregator

CounterKeys == {"waiting", "running", "idle", "error", "total"}

RECURSIVE SummaryAll_overwriting(_, _)
\* mutant: each profile's counters replace the totals instead of adding to them
SummaryAll_overwriting(registry, acc) ==
    IF registry = <<>> THEN {acc}
    ELSE UNION {
        IF sm.ret.kind # "object"
        THEN {Raise(acc.ret, acc.trace \o sm.trace)}
        ELSE SummaryAll_overwriting(Tail(registry),
                Return([totals |-> [k \in {"waiting", "running", "idle", "error", "total"}
                                        |-> Get(sm.ret.obj, k, 0)],
                        per_profile |-> (Head(registry) :> sm.ret.obj)
                                            @@ acc.ret.per_profile],
                       acc.trace \o sm.trace))
        : sm \in get_status_summary(Head(registry), StatusBehaviours)}

RECURSIVE SummaryAll(_, _)
\* the for loop of get_status_summary_all over the profiles left, acc being the
\* run so far
SummaryAll(registry, acc) ==
    IF registry = <<>> THEN {acc}
    ELSE UNION {
        IF sm.ret.kind # "object"
        THEN {Raise(acc.ret, acc.trace \o sm.trace)}
        ELSE SummaryAll(Tail(registry),
                Return([totals |-> [k \in CounterKeys |->
                                        acc.ret.totals[k] + Get(sm.ret.obj, k, 0)],
                        per_profile |-> (Head(registry) :> sm.ret.obj)
                                            @@ acc.ret.per_profile],
                       acc.trace \o sm.trace))
        : sm \in get_status_summary(Head(registry), StatusBehaviours)}

\* ret is [totals, per_profile]
get_status_summary_all(registry) ==
    SummaryAll(registry,
        Return([totals |-> [k \in CounterKeys |-> 0], per_profile |-> EmptyObj], <<>>))

RECURSIVE SessionsAll(_, _)
\* the for loop of get_sessions_list_all; ret is a sequence of <<profile, session>>
SessionsAll(registry, acc) ==
    IF registry = <<>> THEN {acc}
    ELSE UNION {
        SessionsAll(Tail(registry),
            Return(acc.ret \o [i \in 1..Len(ls.ret) |-> <<Head(registry), ls.ret[i]>>],
                   acc.trace \o ls.trace))
        : ls \in get_sessions_list(Head(registry))}

get_sessions_list_all(registry) == SessionsAll(registry, Return(<<>>, <<>>))

\* ------------------------------------------------------------------ handlers

\* STATUS_ICONS.get(status, "❓"); an icon is one character of the text
StatusIcon(status) ==
    CASE status = "running" -> "U+1F7E2" [] status = "waiting" -> "U+1F7E1"
      [] status = "idle" -> "U+26AA" [] status = "error" -> "U+1F534"
      [] OTHER -> "U+2753"

\* a handler between two awaits.  pending: the texts of the message.answer
\* calls ahead, the first one awaited now; stage: what follows the first answer
\* (restart: the restart invocation); exc: an exception left the handler;
\* ensure: the run of ensure_conductor_running, if any; response: the reply of
\* the conductor, if the send succeeded
Handler(u, target, exc, trace, log, pending, stage) ==
    [handler |-> u.handler, sender |-> u.sender, text |-> u.text, target |-> target,
     exc |-> exc, trace |-> trace, log |-> log, pending |-> pending, stage |-> stage,
     ensure |-> NoEnsure, response |-> <<>>]

\* mutant: any sender with an identity passes
is_authorized_any_sender(sender, user) == sender # 0

\* if message.from_user.id != authorized_user: log.warning(...); return False
is_authorized(sender, user) == sender = user

\* the handler returned on `if not is_authorized(message): return`
Dropped(u) == Handler(u, <<>>, FALSE, <<>>, <<"Unauthorized message">>, <<>>, "")
Replying(u, target, trace, pending) ==
    Handler(u, target, FALSE, trace, <<>>, pending, "")
Escaped(u, target, trace) == Handler(u, target, TRUE, trace, <<>>, <<>>, "")
Returned(u) == Handler(u, <<>>, FALSE, <<>>, <<>>, <<>>, "")

cmd_start(u, registry, user) ==
    IF ~is_authorized(u.sender, user) THEN {Dropped(u)}
    ELSE {Replying(u, <<>>, <<>>,
            <<StartText("active") \o Join(CommaSpace, registry) \o StartText("commands")
                \o registry[1]>>)}

cmd_help(u, registry, user) ==
    IF ~is_authorized(u.sender, user) THEN {Dropped(u)}
    ELSE {Replying(u, <<>>, <<>>,
            <<HelpText("commands") \o Join(CommaSpace, registry) \o HelpText("route")
                \o registry[1] \o HelpText("conductor")>>)}

\* the reply of /status: the totals, and a line per profile when there are several
StatusText(agg, registry) ==
    Join(<<"\n">>,
        <<StatusLabel("total") \o Str(agg.totals["total"]) \o StatusLabel("sessions"),
          StatusLabel("running") \o Str(agg.totals["running"]),
          StatusLabel("waiting") \o Str(agg.totals["waiting"]),
          StatusLabel("idle") \o Str(agg.totals["idle"]),
          StatusLabel("error") \o Str(agg.totals["error"])>>
        \o (IF Len(registry) > 1
            THEN <<<<>>>> \o [i \in 1..Len(registry) |->
                    LET c == agg.per_profile[registry[i]]
                    IN <<"[">> \o registry[i] \o <<"]", " ">> \o Str(c["total"])
                        \o <<"s", " ", "(">> \o Str(c["running"]) \o <<"R", " ">>
                        \o Str(c["waiting"]) \o <<"W", " ">> \o Str(c["idle"])
                        \o <<"I", " ">> \o Str(c["error"]) \o <<"E", ")">>]
            ELSE <<>>))

cmd_status(u, registry, user) ==
    IF ~is_authorized(u.sender, user) THEN {Dropped(u)}
    ELSE {IF a.exc THEN Escaped(u, <<>>, a.trace)
          \* p['total'] and the like raise KeyError on a summary without the key
          ELSE IF /\ Len(registry) > 1
                  /\ \E i \in DOMAIN registry :
                        ~(CounterKeys \subseteq DOMAIN a.ret.per_profile[registry[i]])
          THEN Escaped(u, <<>>, a.trace)
          ELSE Replying(u, <<>>, a.trace, <<StatusText(a.ret, registry)>>)
            : a \in get_status_summary_all(registry)}

\* the reply of /sessions, one line per session
SessionsText(all_sessions, registry) ==
    Join(<<"\n">>,
        [i \in 1..Len(all_sessions) |->
            LET profile == all_sessions[i][1]
                x == all_sessions[i][2].obj
            IN <<StatusIcon(Get(x, "status", "")), " ">>
                \o (IF Len(registry) > 1 THEN <<"[">> \o profile \o <<"]", " ">>
                    ELSE <<>>)
                \o Get(x, "title", Untitled) \o <<" ", "(">> \o Get(x, "tool", <<>>)
                \o <<")">>])

cmd_sessions(u, registry, user) ==
    IF ~is_authorized(u.sender, user) THEN {Dropped(u)}
    ELSE {IF a.ret = <<>> THEN Replying(u, <<>>, a.trace, <<NoSessionsFound>>)
          ELSE IF \E i \in DOMAIN a.ret : a.ret[i][2].kind # "object"
          THEN Escaped(u, <<>>, a.trace)
          ELSE Replying(u, <<>>, a.trace, <<SessionsText(a.ret, registry)>>)
            : a \in get_sessions_list_all(registry)}

\* mutant: the argument is the target, registered or not
cmd_restart_any_argument(u, registry, user) ==
    IF ~is_authorized(u.sender, user) THEN {Dropped(u)}
    ELSE LET parts == SplitOnce(Strip(u.text))
             target_profile == IF Len(parts) > 1 THEN parts[2] ELSE registry[1]
         IN {Handler(u, target_profile, FALSE, <<>>, <<>>,
                     <<RestartText("restarting") \o target_profile \o RestartText("dots")>>, "restart")}

\* /restart [profile], up to its first await
cmd_restart(u, registry, user) ==
    IF ~is_authorized(u.sender, user) THEN {Dropped(u)}
    ELSE LET parts == SplitOnce(Strip(u.text))
             target_profile == IF Len(parts) > 1 /\ InList(parts[2], registry)
                               THEN parts[2] ELSE registry[1]
         IN {Handler(u, target_profile, FALSE, <<>>, <<>>,
                     <<RestartText("restarting") \o target_profile \o RestartText("dots")>>, "restart")}

RestartBehaviours == {Exit(0, NoOutput, <<>>)} \cup Failures

\* /restart after the progress message: the restart, and the outcome to report
cmd_restart_outcome(hh) ==
    {[hh EXCEPT
        !.trace = @ \o <<c.call>>,
        !.pending = <<IF c.result.returncode = 0
                      THEN RestartText("conductor") \o hh.target \o RestartText("restarted")
                      ELSE RestartText("failed") \o Strip(c.result.stderr)>>,
        !.stage = ""]
        : c \in run_cli("restart", conductor_session_title(hh.target), <<>>,
                        hh.target, 60, RestartBehaviours)}

\* mutant: the result of ensure_conductor_running is not looked at
handle_ensured_unchecked(running) == TRUE

\* if not ensure_conductor_running(target_profile): ... return
handle_ensured(running) == running

\* a plain text message, up to its first await or its return
handle_message(u, registry, user) ==
    IF ~is_authorized(u.sender, user) THEN {Dropped(u)}
    ELSE IF u.text = <<>> THEN {Returned(u)}
    ELSE LET parsed == parse_profile_prefix(u.text, registry)
             target_profile == IF parsed[1] THEN parsed[2] ELSE registry[1]
             cleaned_msg == IF parsed[3] = <<>> THEN u.text ELSE parsed[3]
             session_title == conductor_session_title(target_profile)
             profile_tag == IF Len(registry) > 1
                            THEN <<"[">> \o target_profile \o <<"]", " ">> ELSE <<>>
         IN UNION {
            IF e.exc
            THEN {[Escaped(u, target_profile, e.trace) EXCEPT !.ensure = Ensured(e)]}
            ELSE IF ~handle_ensured(e.ret)
            THEN {[Replying(u, target_profile, e.trace,
                            <<ForwardText("could not start") \o target_profile
                                \o ForwardText("check")>>)
                    EXCEPT !.ensure = Ensured(e)]}
            ELSE {IF ~r.ret[1]
                  THEN [Handler(u, target_profile, FALSE, e.trace \o r.trace,
                                <<"User message">>,
                                <<ForwardText("failed to send") \o target_profile
                                    \o ForwardText("failed tail")>>, "")
                        EXCEPT !.ensure = Ensured(e)]
                  ELSE [Handler(u, target_profile, FALSE, e.trace \o r.trace,
                                <<"User message", "Conductor response">>,
                                <<profile_tag \o ForwardText("typing")>>
                                \o (LET chunks == split_message(r.ret[2], TG_MAX_LENGTH)
                                    IN [i \in 1..Len(chunks) |-> profile_tag \o chunks[i]]),
                                "")
                        EXCEPT !.ensure = Ensured(e), !.response = r.ret[2]]
                    : r \in send_to_conductor(session_title, cleaned_msg, target_profile,
                                              TRUE, RESPONSE_TIMEOUT)}
            : e \in ensure_conductor_running(target_profile)}

\* the handler the dispatcher picks: the first registered filter that matches
\* (CommandStart, Command("status"), ..., then the catch-all)
HandlerOf(text) ==
    LET parts == SplitOnce(text)
        command == IF parts = <<>> \/ text[1] # "/" THEN <<>> ELSE parts[1]
    IN CASE command = InboundText("/start") -> "cmd_start"
         [] command = InboundText("/status") -> "cmd_status"
         [] command = InboundText("/sessions") -> "cmd_sessions"
         [] command = InboundText("/help") -> "cmd_help"
         [] command = InboundText("/restart") -> "cmd_restart"
         [] OTHER -> "handle_message"

\* an inbound update as the dispatcher hands it to a handler
Update(sender, text) == [handler |-> HandlerOf(text), sender |-> sender, text |-> text]

\* the runs of the handler of an update, each up to its first await or its return
Dispatch(u, registry, user) ==
    CASE u.handler = "cmd_start" -> cmd_start(u, registry, user)
      [] u.handler = "cmd_status" -> cmd_status(u, registry, user)
      [] u.handler = "cmd_sessions" -> cmd_sessions(u, registry, user)
      [] u.handler = "cmd_help" -> cmd_help(u, registry, user)
      [] u.handler = "cmd_restart" -> cmd_restart(u, registry, user)
      [] OTHER -> handle_message(u, registry, user)

\* the chat identities; the configured user_id is one of them
UserIds == {7, 8}

\* the texts of the inbound messages; the empty text is a message without text
InboundTexts ==
    {InboundText("/start"), InboundText("/status"), InboundText("/sessions"), InboundText("/help"), InboundText("/restart"), InboundText("/restart work"),
     InboundText("/restart nobody"), InboundText("hello"), InboundText("/p work hi"), InboundText("/p ops"), InboundText("/p unknown hi"),
     InboundText("work: ping"), InboundText("ops:"), <<>>}

NoHandler == Handler(Update(0, <<>>), <<>>, FALSE, <<>>, <<>>, <<>>, "none")

\* the dispatcher calls the handler of an update; it runs to its first await
HandleUpdate ==
    /\ hpc = "idle"
    /\ \E sender \in UserIds, text \in InboundTexts :
        \E r \in Dispatch(Update(sender, text), profiles, authorized_user) :
            /\ h' = r
            /\ hpc' = IF r.pending # <<>> THEN "answer" ELSE "done"
    /\ outbox' = <<>>
    /\ UNCHANGED <<cfgVars, hbVars, slackVars, fnVars, loopVars>>

\* await message.answer(...) completes and the handler runs on to its next
\* await or its end, or the call raises and the exception leaves the handler
HandlerAnswer ==
    /\ hpc = "answer"
    /\ \E delivered \in BOOLEAN :
        /\ outbox' = Append(outbox, [chat |-> h.sender, text |-> Head(h.pending),
                                     delivered |-> delivered])
        /\ IF ~delivered
           THEN h' = [h EXCEPT !.exc = TRUE, !.pending = <<>>, !.stage = ""]
           ELSE IF h.stage = "restart"
           THEN h' \in cmd_restart_outcome(h)
           ELSE h' = [h EXCEPT !.pending = Tail(@)]
    /\ hpc' = IF h'.pending # <<>> THEN "answer" ELSE "done"
    /\ UNCHANGED <<cfgVars, hbVars, slackVars, fnVars, loopVars>>

\* the handler is over; the dispatcher takes the next update
HandlerReturn ==
    /\ hpc = "done"
    /\ hpc' = "idle"
    /\ h' = NoHandler
    /\ outbox' = <<>>
    /\ UNCHANGED <<cfgVars, hbVars, slackVars, fnVars, loopVars>>

\* ------------------------------------------------------------- event loop

\* asyncio runs main, the handlers and the heartbeat task on one thread: a task
\* runs from one await to the next (a segment) and only there hands the thread
\* back to the loop.  A segment is the sequence of its external effects.

\* mutant: the send is awaited, the thread is handed back while it runs
Blocking_except_send(op) == op \notin {"send --wait", "send --no-wait"}

\* subprocess.run and time.sleep return only when the invocation is over
Blocking(op) == TRUE

NoSegments == [t \in {"handler", "heartbeat"} |-> <<>>]
Busy(t) == \E f \in inflight : f.task = t
MainOver == main.pc \in {"returned", "raised"}

\* the segments of a handler run: the code up to the first message.answer, then
\* what follows each answer (for /restart, the restart invocation)
HandlerPlans(r) ==
    IF r.stage = "restart"
    THEN {<<r.trace, o.trace, <<>>>> : o \in cmd_restart_outcome(r)}
    ELSE {<<r.trace>> \o [i \in 1..Len(r.pending) |-> <<>>]}

\* the dispatcher calls the handler of an update
LoopDispatch ==
    /\ thread = "loop"
    /\ main.pc = "polling"
    /\ plan["handler"] = <<>>
    /\ \E sender \in UserIds, text \in InboundTexts :
        \E r \in Dispatch(Update(sender, text), profiles, authorized_user) :
            \E segments \in HandlerPlans(r) :
                plan' = [plan EXCEPT !["handler"] = segments]
    /\ thread' = "handler"
    /\ UNCHANGED <<cfgVars, hbVars, hVars, slackVars, fnVars,
                   main, cancel, closed, ran, inflight>>

\* the running task begins the next invocation of its segment
LoopBegin ==
    /\ \E t \in {"handler", "heartbeat"} :
        /\ thread = t
        /\ plan[t] # <<>>
        /\ Head(plan[t]) # <<>>
        /\ ~Busy(t)
        /\ inflight' = inflight \cup {[task |-> t, event |-> Head(Head(plan[t]))]}
        /\ thread' = IF Blocking(Head(Head(plan[t])).op) THEN t ELSE "loop"
    /\ UNCHANGED <<cfgVars, hbVars, hVars, slackVars, fnVars,
                   main, cancel, closed, plan, ran>>

\* an invocation is over and its task goes on
LoopEnd ==
    /\ \E f \in inflight :
        /\ thread \in {f.task, "loop"}
        /\ inflight' = inflight \ {f}
        /\ plan' = [plan EXCEPT ![f.task] = <<Tail(Head(@))>> \o Tail(@)]
        /\ ran' = [ran EXCEPT ![f.task] = Append(@, f.event)]
        /\ thread' = f.task
    /\ UNCHANGED <<cfgVars, hbVars, hVars, slackVars, fnVars, main, cancel, closed>>

\* the handler reaches `await message.answer(...)`, or returns
LoopHandlerAwait ==
    /\ thread = "handler"
    /\ plan["handler"] # <<>>
    /\ Head(plan["handler"]) = <<>>
    /\ ~Busy("handler")
    /\ plan' = [plan EXCEPT !["handler"] = Tail(@)]
    /\ ran' = [ran EXCEPT !["handler"] = <<>>]
    /\ thread' = "loop"
    /\ UNCHANGED <<cfgVars, hbVars, hVars, slackVars, fnVars,
                   main, cancel, closed, inflight>>

\* message.answer(...) completes and the handler is resumed, or it raises and
\* the exception leaves the handler
LoopHandlerResume ==
    /\ thread = "loop"
    /\ ~MainOver
    /\ plan["handler"] # <<>>
    /\ ~Busy("handler")
    /\ \E delivered \in BOOLEAN :
        IF delivered
        THEN thread' = "handler" /\ plan' = plan
        ELSE thread' = "loop" /\ plan' = [plan EXCEPT !["handler"] = <<>>]
    /\ UNCHANGED <<cfgVars, hbVars, hVars, slackVars, fnVars,
                   main, cancel, closed, ran, inflight>>

\* the loop runs the heartbeat task: its first step, or the step after
\* asyncio.sleep or bot.send_message.  A cancelled task gets CancelledError at
\* its await; `except Exception` (655-669) does not catch it, the task ends
LoopHeartbeatResume ==
    /\ thread = "loop"
    /\ ~MainOver
    /\ hbpc \in {"start", "sleep", "alert"}
    /\ ~Busy("heartbeat")
    /\ IF cancel
       THEN hbpc' = "cancelled" /\ UNCHANGED <<hbIdx, thread>>
       ELSE IF hbpc = "start"
       THEN /\ hbpc' = IF heartbeat_interval <= 0 THEN "done" ELSE "sleep"
            /\ UNCHANGED <<hbIdx, thread>>
       ELSE /\ hbpc' = "iter"
            /\ hbIdx' = IF hbpc = "sleep" THEN 1 ELSE hbIdx + 1
            /\ thread' = "heartbeat"
    /\ UNCHANGED <<cfgVars, hVars, slackVars, fnVars, it, evaluated, raisedInTick,
                   alerts, main, cancel, closed, plan, ran, inflight>>

\* the for loop takes the next profile, or is exhausted and the task sleeps
LoopHeartbeatIteration ==
    /\ thread = "heartbeat"
    /\ hbpc = "iter"
    /\ plan["heartbeat"] = <<>>
    /\ IF hbIdx > Len(profiles)
       THEN hbpc' = "sleep" /\ thread' = "loop" /\ plan' = plan
       ELSE /\ \E r \in heartbeat_iteration(profiles[hbIdx], profiles, authorized_user) :
                plan' = [plan EXCEPT !["heartbeat"] =
                            IF r.alert # <<>> THEN <<r.trace, <<>>>> ELSE <<r.trace>>]
            /\ UNCHANGED <<hbpc, thread>>
    /\ UNCHANGED <<cfgVars, hVars, slackVars, fnVars, hbIdx, it, evaluated,
                   raisedInTick, alerts, main, cancel, closed, ran, inflight>>

\* the body of the for loop is over: the task awaits bot.send_message, or goes
\* on with the next profile
LoopHeartbeatAwait ==
    /\ thread = "heartbeat"
    /\ plan["heartbeat"] # <<>>
    /\ Head(plan["heartbeat"]) = <<>>
    /\ ~Busy("heartbeat")
    /\ plan' = [plan EXCEPT !["heartbeat"] = <<>>]
    /\ ran' = [ran EXCEPT !["heartbeat"] = <<>>]
    /\ IF Len(plan["heartbeat"]) > 1
       THEN hbpc' = "alert" /\ thread' = "loop" /\ hbIdx' = hbIdx
       ELSE hbIdx' = hbIdx + 1 /\ UNCHANGED <<hbpc, thread>>
    /\ UNCHANGED <<cfgVars, hVars, slackVars, fnVars, it, evaluated, raisedInTick,
                   alerts, main, cancel, closed, inflight>>

\* mutant: no `finally`, an exception of the polling leaves main at once
MainPollingEnds_no_finally ==
    /\ thread = "loop"
    /\ main.pc = "polling"
    /\ \E exc \in BOOLEAN :
        /\ main' = [pc |-> IF exc THEN "raised" ELSE "closing", exc |-> exc]
        /\ cancel' = ~exc
    /\ UNCHANGED <<cfgVars, hbVars, hVars, slackVars, fnVars,
                   closed, thread, plan, ran, inflight>>

\* dp.start_polling(bot) returns or raises; finally: heartbeat_task.cancel(),
\* and bot.session.close() is awaited
MainPollingEnds ==
    /\ thread = "loop"
    /\ main.pc = "polling"
    /\ \E exc \in BOOLEAN : main' = [pc |-> "closing", exc |-> exc]
    /\ cancel' = TRUE
    /\ UNCHANGED <<cfgVars, hbVars, hVars, slackVars, fnVars,
                   closed, thread, plan, ran, inflight>>

\* bot.session.close() completes or raises, and main is over
MainClosed ==
    /\ thread = "loop"
    /\ main.pc = "closing"
    /\ \E ok \in BOOLEAN :
        /\ closed' = IF ok THEN "yes" ELSE "failed"
        /\ main' = [main EXCEPT !.pc = IF main.exc \/ ~ok THEN "raised" ELSE "returned"]
    /\ UNCHANGED <<cfgVars, hbVars, hVars, slackVars, fnVars,
                   cancel, thread, plan, ran, inflight>>

\* ------------------------------------------------- allow-list authorization

\* the identities of the Slack events and of the allow-lists
SlackId(name) ==
    CASE name = "U1" ->
            <<"U","1">>
      [] name = "U2" ->
            <<"U","2">>
      [] name = "U12" ->
            <<"U","1","2">>
      [] name = "u1" ->
            <<"u","1">>
      [] name = " U1" ->
            <<" ","U","1">>
      [] name = "U1 " ->
            <<"U","1"," ">>
      [] name = "U" ->
            <<"U">>
      [] OTHER ->  \* ""
            <<>>

\* the identities an event may carry
SlackIds ==
    {SlackId("U1"), SlackId("U2"), SlackId("U12"), SlackId("u1"), SlackId(" U1"), SlackId("U1 "), SlackId("U"), SlackId("")}

\* the identities a configured allow-list may hold
AllowedEntries == {SlackId("U1"), SlackId("U2"), SlackId("U12"), SlackId("")}

\* allowed_users: None, or a list (duplicates allowed)
AllowList(none, items) == [none |-> none, items |-> items]
AllowLists ==
    {AllowList(TRUE, <<>>)}
    \cup {AllowList(FALSE, items) :
            items \in UNION {[1..n -> AllowedEntries] : n \in 0..MaxAllowed}}

\* `not allowed_users`: None and the empty list are falsy
Falsy(allowed) == allowed.none \/ allowed.items = <<>>

\* mutant: an identity matches an entry it is part of
is_slack_authorized_substring(user_id, allowed) ==
    IF Falsy(allowed) THEN TRUE
    ELSE \E i \in DOMAIN allowed.items : Contains(allowed.items[i], user_id)

is_slack_authorized(user_id, allowed) ==
    IF Falsy(allowed) THEN TRUE
    ELSE IF ~InList(user_id, allowed.items) THEN FALSE
    ELSE TRUE

NoDecision == [asked |-> FALSE, user_id |-> <<>>, authorized |-> FALSE, warned |-> FALSE]

\* an event of user_id reaches a handler, which asks is_slack_authorized
SlackEvent ==
    /\ \E user_id \in SlackIds :
        slack_result' = [asked |-> TRUE, user_id |-> user_id,
                         authorized |-> is_slack_authorized(user_id, allowed_users),
                         warned |-> ~is_slack_authorized(user_id, allowed_users)]
    /\ UNCHANGED <<cfgVars, hbVars, hVars, fnVars, loopVars, allowed_users>>

\* ------------------------------------------------------------ function calls

\* no function is being called on its own
NoCall == [fn |-> "none"]
\* the call is not over
NoResult == [done |-> FALSE]
Result(value) == [done |-> TRUE, value |-> value]

\* ---- parse_profile_prefix

\* tokens and remainders of the texts the router is called with
RouterText(name) ==
    CASE name = "ops:x" ->
            <<"o","p","s",":","x">>
      [] name = "unknown" ->
            <<"u","n","k","n","o","w","n">>
      [] name = "op" ->
            <<"o","p">>
      [] name = "Ops" ->
            <<"O","p","s">>
      [] name = "hi" ->
            <<"h","i">>
      [] name = "hi there" ->
            <<"h","i"," ","t","h","e","r","e">>
      [] OTHER ->  \* "x: hi"
            <<"x",":"," ","h","i">>

\* the registries the router is called with: those of the configuration, and
\* two holding a name that continues another name and a colon, in both orders
RouterRegistries ==
    Registries \cup {<<ProfileOps, RouterText("ops:x")>>, <<RouterText("ops:x"), ProfileOps>>}

\* the first token of an explicit form: registered names and near misses
RouterTokens ==
    {ProfileOps, ProfileWork, RouterText("ops:x"), RouterText("unknown"), RouterText("op"), RouterText("Ops")}

\* texts of neither explicit form
PlainTexts ==
    {<<>>, RouterText("hi"), InboundText("/status"), <<"/","p">>, <<"/","p"," ">>, <<"/","p"," "," ">>,
     <<"/","p","o","p","s"," ","h","i">>, <<"/","p","\t","o","p","s"," ","h","i">>,
     <<" ","o","p","s",":"," ","h","i">>, <<"O","p","s",":"," ","h","i">>,
     <<"o","p",":"," ","h","i">>, <<"o","p","s"," ",":"," ","h","i">>,
     <<"o","p","s">>, <<"h","i",":"," ","o","p","s",":">>}

\* a call of parse_profile_prefix(text, profiles) on a text made of its parts:
\* "/p " pad tok sep rest trail (slash), tok ":" pad rest trail (colon), or a
\* plain text; pad, sep and trail are whitespace, rest has none at its ends
RouterCall(form, tok, pad, sep, rest, trail, text, registry) ==
    [fn |-> "parse_profile_prefix", form |-> form, tok |-> tok, rest |-> rest,
     text |-> text, registry |-> registry]

RouterCalls ==
    {RouterCall("slash", tok, pad, sep, rest, trail,
                SlashP \o pad \o tok \o sep \o rest \o trail, registry) :
        tok \in RouterTokens, pad \in {<<>>, <<" ">>},
        sep \in {<<" ">>, <<" ", " ">>, <<"\n">>},
        rest \in {<<>>, RouterText("hi"), RouterText("hi there")}, trail \in {<<>>, <<" ">>},
        registry \in RouterRegistries}
    \cup {RouterCall("slash", tok, <<>>, <<>>, <<>>, <<>>, SlashP \o tok, registry) :
        tok \in RouterTokens, registry \in RouterRegistries}
    \cup {RouterCall("colon", tok, pad, <<>>, rest, trail,
                     tok \o <<":">> \o pad \o rest \o trail, registry) :
        tok \in RouterTokens, pad \in {<<>>, <<" ">>, <<" ", " ">>},
        rest \in {<<>>, RouterText("hi"), RouterText("hi there"), RouterText("x: hi")}, trail \in {<<>>, <<" ">>},
        registry \in RouterRegistries}
    \cup {RouterCall("plain", <<>>, <<>>, <<>>, <<>>, <<>>, text, registry) :
        text \in PlainTexts, registry \in RouterRegistries}

\* ---- the gateway and the lifecycle manager

\* a status query of one session or one profile under one behaviour of the tool,
\* the aggregate over a registry, ensure_conductor_running for a profile, and
\* a send with and without --wait
GatewayCalls ==
    {[fn |-> "get_session_status",
      session |-> conductor_session_title(registry[Len(registry)]),
      profile |-> registry[Len(registry)], tool |-> tool] :
        registry \in Registries, tool \in ShowBehaviours}
    \cup {[fn |-> "get_status_summary", profile |-> registry[Len(registry)],
            tool |-> tool] :
        registry \in Registries, tool \in StatusBehaviours}
    \cup {[fn |-> "get_status_summary_all", registry |-> registry] :
        registry \in Registries}
    \cup {[fn |-> "ensure_conductor_running", profile |-> registry[Len(registry)]] :
        registry \in Registries}
    \cup {[fn |-> "send_to_conductor",
            session |-> conductor_session_title(registry[Len(registry)]),
            message |-> InboundText("hello"), profile |-> registry[Len(registry)],
            wait_for_reply |-> wait_for_reply] :
        registry \in Registries, wait_for_reply \in BOOLEAN}

\* ensure_conductor_running(profile) returns or raises
EnsureConductorRunning ==
    /\ fn_call.fn = "ensure_conductor_running"
    /\ ~fn_result.done
    /\ \E r \in ensure_conductor_running(fn_call.profile) :
        fn_result' = Result(r)
    /\ UNCHANGED <<cfgVars, hbVars, hVars, slackVars, loopVars, fn_call>>

\* send_to_conductor(session, message, profile, wait_for_reply) returns
SendToConductor ==
    /\ fn_call.fn = "send_to_conductor"
    /\ ~fn_result.done
    /\ \E r \in send_to_conductor(fn_call.session, fn_call.message, fn_call.profile,
                                  fn_call.wait_for_reply, RESPONSE_TIMEOUT) :
        fn_result' = Result(r)
    /\ UNCHANGED <<cfgVars, hbVars, hVars, slackVars, loopVars, fn_call>>

\* get_session_status(session, profile) returns or raises
GetSessionStatus ==
    /\ fn_call.fn = "get_session_status"
    /\ ~fn_result.done
    /\ \E r \in get_session_status(fn_call.session, fn_call.profile, {fn_call.tool}) :
        fn_result' = Result(r)
    /\ UNCHANGED <<cfgVars, hbVars, hVars, slackVars, loopVars, fn_call>>

\* get_status_summary(profile) returns
GetStatusSummary ==
    /\ fn_call.fn = "get_status_summary"
    /\ ~fn_result.done
    /\ \E r \in get_status_summary(fn_call.profile, {fn_call.tool}) :
        fn_result' = Result(r)
    /\ UNCHANGED <<cfgVars, hbVars, hVars, slackVars, loopVars, fn_call>>

\* get_status_summary_all(profiles) returns or raises
GetStatusSummaryAll ==
    /\ fn_call.fn = "get_status_summary_all"
    /\ ~fn_result.done
    /\ \E r \in get_status_summary_all(fn_call.registry) :
        fn_result' = Result(r)
    /\ UNCHANGED <<cfgVars, hbVars, hVars, slackVars, loopVars, fn_call>>

\* ---- split_message

\* the texts split_message is called with: letters and line breaks
SplitTexts == UNION {[1..n -> {"a", "b", "\n"}] : n \in 0..MaxTextLen}

SplitCalls ==
    {[fn |-> "split_message", text |-> text, max_len |-> max_len] :
        text \in SplitTexts, max_len \in 1..MaxChunkLen}

\* split_message(text, max_len) returns
SplitMessage ==
    /\ fn_call.fn = "split_message"
    /\ ~fn_result.done
    /\ fn_result' = Result(split_message(fn_call.text, fn_call.max_len))
    /\ UNCHANGED <<cfgVars, hbVars, hVars, slackVars, loopVars, fn_call>>

\* parse_profile_prefix(text, profiles) returns
ParseProfilePrefix ==
    /\ fn_call.fn = "parse_profile_prefix"
    /\ ~fn_result.done
    /\ fn_result' = Result(parse_profile_prefix(fn_call.text, fn_call.registry))
    /\ UNCHANGED <<cfgVars, hbVars, hVars, slackVars, loopVars, fn_call>>

\* ------------------------------------------------------------ specifications

\* the bridge after main() has loaded the configuration and created the bot
Init ==
    /\ profiles \in Registries
    /\ authorized_user = 7
    /\ heartbeat_interval \in {-5, 0, 15}
    /\ hbpc = "start"
    /\ hbIdx = 1
    /\ it = NoIteration
    /\ evaluated = <<>>
    /\ raisedInTick = FALSE
    /\ alerts = <<>>
    /\ hpc = "idle"
    /\ h = NoHandler
    /\ outbox = <<>>
    /\ allowed_users = AllowList(TRUE, <<>>)
    /\ slack_result = NoDecision
    /\ main = [pc |-> "polling", exc |-> FALSE]
    /\ cancel = FALSE
    /\ closed = "no"
    /\ thread = "loop"
    /\ plan = NoSegments
    /\ ran = NoSegments
    /\ inflight = {}
    /\ fn_call = NoCall
    /\ fn_result = NoResult

NextHeartbeat ==
    \/ HeartbeatStart
    \/ HeartbeatWake
    \/ HeartbeatIteration
    \/ HeartbeatAlert
    \/ HeartbeatLoop

\* the heartbeat task alone (the handlers share no mutable state with it)
SpecHeartbeat == Init /\ [][NextHeartbeat]_vars

NextHandlers ==
    \/ HandleUpdate
    \/ HandlerAnswer
    \/ HandlerReturn

\* the chat handlers alone, one update at a time
SpecHandlers == Init /\ [][NextHandlers]_vars

\* the allow-list check under each configuration of the list
InitSlack ==
    /\ profiles = <<ProfileOps>>
    /\ authorized_user = 7
    /\ heartbeat_interval = 0
    /\ hbpc = "start"
    /\ hbIdx = 1
    /\ it = NoIteration
    /\ evaluated = <<>>
    /\ raisedInTick = FALSE
    /\ alerts = <<>>
    /\ hpc = "idle"
    /\ h = NoHandler
    /\ outbox = <<>>
    /\ allowed_users \in AllowLists
    /\ slack_result = NoDecision
    /\ main = [pc |-> "polling", exc |-> FALSE]
    /\ cancel = FALSE
    /\ closed = "no"
    /\ thread = "loop"
    /\ plan = NoSegments
    /\ ran = NoSegments
    /\ inflight = {}
    /\ fn_call = NoCall
    /\ fn_result = NoResult

NextSlack == SlackEvent

SpecSlack == InitSlack /\ [][NextSlack]_vars

\* the bridge variables at rest, while a function is called on its own
AtRest ==
    /\ profiles = <<ProfileOps>>
    /\ authorized_user = 7
    /\ heartbeat_interval = 0
    /\ hbpc = "start"
    /\ hbIdx = 1
    /\ it = NoIteration
    /\ evaluated = <<>>
    /\ raisedInTick = FALSE
    /\ alerts = <<>>
    /\ hpc = "idle"
    /\ h = NoHandler
    /\ outbox = <<>>
    /\ allowed_users = AllowList(TRUE, <<>>)
    /\ slack_result = NoDecision
    /\ main = [pc |-> "polling", exc |-> FALSE]
    /\ cancel = FALSE
    /\ closed = "no"
    /\ thread = "loop"
    /\ plan = NoSegments
    /\ ran = NoSegments
    /\ inflight = {}

InitFunctions ==
    /\ AtRest
    /\ fn_call \in RouterCalls \cup SplitCalls \cup GatewayCalls
    /\ fn_result = NoResult

NextFunctions ==
    \/ ParseProfilePrefix
    \/ SplitMessage
    \/ GetSessionStatus
    \/ GetStatusSummary
    \/ GetStatusSummaryAll
    \/ EnsureConductorRunning
    \/ SendToConductor

\* the functions of the bridge called on their own, on each of their inputs
SpecFunctions == InitFunctions /\ [][NextFunctions]_vars

NextLoop ==
    \/ LoopDispatch
    \/ LoopBegin
    \/ LoopEnd
    \/ LoopHandlerAwait
    \/ LoopHandlerResume
    \/ LoopHeartbeatResume
    \/ LoopHeartbeatIteration
    \/ LoopHeartbeatAwait
    \/ MainPollingEnds
    \/ MainClosed

\* main, one handler at a time and the heartbeat task on the event loop
SpecLoop == Init /\ [][NextLoop]_vars

\* ------------------------------------------------------ heartbeat properties

\* the iteration of it.profile has run to its end, its alert included
IterationDone == hbpc = "iter" /\ it.outcome # "none"
SendAt(trace) == {i \in DOMAIN trace : trace[i].op \in {"send --wait", "send --no-wait"}}
SendSucceeded(r) == \E i \in SendAt(r.trace) : r.trace[i].rc = 0
AlertsFor(profile) == {i \in DOMAIN alerts : alerts[i].profile = profile}
Tag(profile) == <<"[">> \o profile \o <<"]">>
EndsWith(text, suffix) ==
    Len(suffix) <= Len(text)
    /\ SubSeq(text, Len(text) - Len(suffix) + 1, Len(text)) = suffix

(* C1: a failure raised inside one profile's iteration (status fetch, session
   listing, ensure, send, alert delivery) never ends the cycle: an enabled
   heartbeat is never terminated, after every iteration -- raised or not -- the
   loop stands at the next profile, at the end of a tick every profile of the
   registry has been evaluated, and the next tick can start. *)
C1_FailureNeverEndsCycle ==
    /\ heartbeat_interval > 0 => hbpc \in {"start", "sleep", "iter", "alert"}
    /\ hbpc = "iter" => /\ hbIdx <= Len(profiles) + 1
                        /\ evaluated = SubSeq(profiles, 1, hbIdx - 1)
    /\ hbpc = "alert" => evaluated = SubSeq(profiles, 1, hbIdx)
    /\ (hbpc = "iter" /\ hbIdx > Len(profiles)) =>
            evaluated = profiles /\ ENABLED HeartbeatLoop
    /\ hbpc = "sleep" => ENABLED HeartbeatWake

\* a tick ends in which an early profile's iteration raised and a later one ran
C1_Witness ==
    /\ hbpc = "iter" /\ hbIdx > Len(profiles) /\ Len(profiles) >= 2
    /\ raisedInTick /\ ~it.exc /\ it.outcome = "quiet"

(* C2: an iteration whose fetched summary has waiting = 0 and error = 0 is a
   no-op: its only external effect is the status query -- no listing, no
   ensure, no send -- and no alert is pending or attempted for the profile. *)
C2_QuietProfileIsNoOp ==
    (/\ it.outcome # "none" /\ it.summary # NoSummary
     /\ Get(it.summary, "waiting", 0) = 0 /\ Get(it.summary, "error", 0) = 0)
    => /\ Len(it.trace) = 1 /\ it.trace[1].op = "status"
       /\ ~it.ensure.called
       /\ it.alert = <<>>
       /\ AlertsFor(it.profile) = {}

\* a profile with a running session and nothing waiting or in error was skipped
C2_Witness ==
    /\ it.outcome = "skip" /\ Get(it.summary, "running", 0) = 1
    /\ Get(it.summary, "total", 0) = 1

(* C3: the diagnostic send is issued only after ensure_conductor_running
   returned true in the same iteration (its effects directly precede the send,
   which is the iteration's last effect); when it returned false there is no
   send and no alert for the profile. *)
C3_SendOnlyAfterEnsured ==
    /\ \A i \in SendAt(it.trace) :
        /\ it.ensure.called /\ ~it.ensure.exc /\ it.ensure.ret
        /\ i = Len(it.trace)
        /\ SubSeq(it.trace, i - Len(it.ensure.trace), i - 1) = it.ensure.trace
        /\ it.trace[i].session = conductor_session_title(it.profile)
        /\ it.trace[i].profile = it.profile
    /\ (it.ensure.called /\ ~it.ensure.exc /\ ~it.ensure.ret) =>
        /\ SendAt(it.trace) = {}
        /\ it.alert = <<>>
        /\ AlertsFor(it.profile) = {}

\* ensure_conductor_running started the session, found it still in error and
\* returned false
C3_Witness ==
    /\ it.outcome = "ensure_failed"
    /\ Len(it.ensure.trace) > 3

(* C4, as amended: an alert delivery to the authorized identity is ATTEMPTED for
   the profile iff the diagnostic send succeeded and its reply contains "NEED:";
   at most one is attempted per profile per tick, its body ends with the full
   reply, and it is delivered unless the transport raises. *)
C4_AlertAttemptedIffNeed ==
    /\ IterationDone =>
        ((AlertsFor(it.profile) # {})
            <=> (SendSucceeded(it) /\ Contains(it.response, NeedMarker)))
    /\ hbpc = "alert" =>
        /\ AlertsFor(it.profile) = {}
        /\ SendSucceeded(it) /\ Contains(it.response, NeedMarker)
        /\ Len(it.alert) = 1
        /\ it.alert[1].chat = authorized_user
        /\ EndsWith(it.alert[1].text, AlertHead \o it.response)
    /\ \A i \in DOMAIN profiles : Cardinality(AlertsFor(profiles[i])) <= 1
    /\ \A i \in DOMAIN alerts :
        /\ alerts[i].chat = authorized_user
        /\ EndsWith(alerts[i].text, alerts[i].response)
        /\ Contains(alerts[i].response, NeedMarker)

\* an alert whose marker is not at the start of the reply was attempted and the
\* transport refused it
C4_Witness ==
    /\ IterationDone
    /\ \E i \in AlertsFor(it.profile) :
        ~alerts[i].delivered /\ ~StartsWith(alerts[i].response, NeedMarker)

(* C4, as claimed: an alert is DELIVERED iff the send succeeded and its reply
   contains "NEED:". *)
C4_AlertDeliveredIffNeed ==
    IterationDone =>
        ((\E i \in AlertsFor(it.profile) : alerts[i].delivered)
            <=> (SendSucceeded(it) /\ Contains(it.response, NeedMarker)))

\* the end-to-end scenario: one waiting session, a successful send, a reply
\* containing "NEED: review PR"
ScenarioRan ==
    /\ IterationDone /\ it.summary # NoSummary
    /\ Get(it.summary, "waiting", 0) = 1
    /\ SendSucceeded(it) /\ Contains(it.response, ReplyText("need"))

(* C5, as amended: in the end-to-end scenario one tick makes exactly one alert
   delivery attempt for the profile, whose body contains "NEED:" and -- when
   the registry holds more than one profile -- the tag "[p]"; with a
   single-profile registry the body is "Conductor alert:\n" and the reply,
   untagged. *)
C5_ScenarioAlertsOnceTaggedIfMany ==
    ScenarioRan =>
        /\ Cardinality(AlertsFor(it.profile)) = 1
        /\ \A i \in AlertsFor(it.profile) :
            /\ Contains(alerts[i].text, NeedMarker)
            /\ Len(profiles) > 1 =>
                StartsWith(alerts[i].text, Tag(it.profile) \o <<" ">> \o AlertHead)
            /\ Len(profiles) = 1 => alerts[i].text = AlertHead \o it.response

\* the scenario ran for the second profile of a registry and the alert went out
C5_Witness ==
    /\ ScenarioRan /\ Len(profiles) = 2 /\ it.profile = profiles[2]
    /\ \E i \in AlertsFor(it.profile) : alerts[i].delivered

(* C5, as claimed: ... the body contains "NEED:" and the tag "[p]", for a
   registry of any size. *)
C5_ScenarioAlertsOnceTagged ==
    ScenarioRan =>
        /\ Cardinality(AlertsFor(it.profile)) = 1
        /\ \A i \in AlertsFor(it.profile) :
            /\ Contains(alerts[i].text, NeedMarker)
            /\ Contains(alerts[i].text, Tag(it.profile))

(* C6: when the initial status query of ensure_conductor_running answers
   anything but error, the call returns true and its only external effect is
   that one status query of conductor-<p>: no start, no create, no settle wait. *)
C6_EnsureFastPath ==
    (it.ensure.called /\ it.ensure.trace[1].val \notin {"error", "raised"}) =>
        /\ ~it.ensure.exc /\ it.ensure.ret
        /\ it.ensure.trace =
            <<[Event("show", it.profile, conductor_session_title(it.profile),
                     <<>>, 30, 0) EXCEPT !.val = it.ensure.trace[1].val]>>

\* the conductor was found waiting at its prompt
C6_Witness ==
    it.ensure.called /\ it.ensure.trace[1].val = "waiting"

(* C7: when the initial status is error, the first start fails and the create
   fails, ensure_conductor_running returns false at once: the failed create is
   its last effect, after exactly the status query and the failed start. *)
C7_CreateFailureIsFinal ==
    \A i \in DOMAIN it.ensure.trace :
        (it.ensure.trace[i].op = "add" /\ it.ensure.trace[i].rc # 0) =>
            /\ i = 3 /\ Len(it.ensure.trace) = 3
            /\ ~it.ensure.exc /\ ~it.ensure.ret
            /\ it.ensure.trace[1].op = "show" /\ it.ensure.trace[1].val = "error"
            /\ it.ensure.trace[2].op = "start" /\ it.ensure.trace[2].rc # 0

\* a create failed
C7_Witness ==
    \E i \in DOMAIN it.ensure.trace :
        it.ensure.trace[i].op = "add" /\ it.ensure.trace[i].rc # 0

(* C8: on the remediation path the settle wait and the status re-query happen
   only after a start invocation of the same call that exited 0, and the call
   then returns true iff the re-queried status is not error. *)
C8_SettleOnlyAfterSuccessfulStart ==
    \A i \in DOMAIN it.ensure.trace :
        it.ensure.trace[i].op = "sleep" =>
            /\ \E j \in 1..(i - 1) :
                it.ensure.trace[j].op = "start" /\ it.ensure.trace[j].rc = 0
            /\ Len(it.ensure.trace) = i + 1 /\ it.ensure.trace[i + 1].op = "show"
            /\ ~it.ensure.exc =>
                (it.ensure.ret <=> it.ensure.trace[i + 1].val # "error")

\* -------------------------------------------------------- handler properties

(* C9: a message whose sender is not the authorized identity makes its
   handler -- /start, /status, /sessions, /help, /restart or the plain-text
   one -- return at once: no external-tool invocation, no chat message sent or
   pending, no exception; the warning of is_authorized is the only log entry. *)
C9_UnauthorizedIsDropped ==
    (hpc # "idle" /\ h.sender # authorized_user) =>
        /\ hpc = "done"
        /\ h.trace = <<>>
        /\ outbox = <<>> /\ h.pending = <<>>
        /\ ~h.exc
        /\ h.log = <<"Unauthorized message">>
        /\ h.handler \in {"cmd_start", "cmd_status", "cmd_sessions", "cmd_help",
                          "cmd_restart", "handle_message"}

\* the stranger asked for a restart of the second profile
C9_Witness ==
    /\ hpc = "done" /\ h.sender # authorized_user
    /\ h.handler = "cmd_restart" /\ h.text = InboundText("/restart work")
    /\ Len(profiles) = 2

\* ------------------------------------------------------ allow-list properties

(* C10: with a non-empty allow-list an identity is authorized iff it is an
   exact, case-sensitive member of the list -- an identity that is only part
   of an entry, differs from it in case or is padded with whitespace is
   rejected, and so is the empty identity unless the list holds it; with an
   empty or absent allow-list every identity, the empty one included, is
   authorized.  A rejection, and only a rejection, is logged. *)
C10_AllowListExactMembership ==
    slack_result.asked =>
        LET member == \E i \in DOMAIN allowed_users.items :
                        allowed_users.items[i] = slack_result.user_id
            enabled == ~allowed_users.none /\ Len(allowed_users.items) > 0
        IN /\ enabled => (slack_result.authorized <=> member)
           /\ (enabled /\ slack_result.user_id \in
                    {SlackId("U"), SlackId("u1"), SlackId(" U1"), SlackId("U1 ")})
                => ~slack_result.authorized
           /\ (enabled /\ slack_result.user_id = SlackId("")
                    /\ \A i \in DOMAIN allowed_users.items :
                            allowed_users.items[i] # SlackId(""))
                => ~slack_result.authorized
           /\ ~enabled => slack_result.authorized
           /\ slack_result.warned <=> ~slack_result.authorized

\* the lower-case spelling of a listed identity was rejected
C10_Witness ==
    /\ slack_result.asked /\ slack_result.user_id = SlackId("u1")
    /\ allowed_users = AllowList(FALSE, <<SlackId("U1"), SlackId("U12")>>)
    /\ ~slack_result.authorized

\* -------------------------------------------------------- router properties

RouterReturned == fn_call.fn = "parse_profile_prefix" /\ fn_result.done
\* the token of the call is a name of its registry
TokenRegistered ==
    \E i \in DOMAIN fn_call.registry : fn_call.registry[i] = fn_call.tok

(* C11: for a text "/p <tok> <rest>" (rest possibly empty) the router returns
   (tok, rest) if tok is a registered profile and (none, the text unchanged)
   if it is not; a text of neither explicit form comes back unchanged with no
   profile; a profile returned is always a member of the registry. *)
C11_SlashFormRoutesIffRegistered ==
    RouterReturned =>
        /\ fn_call.form = "slash" =>
            fn_result.value = IF TokenRegistered
                              THEN <<TRUE, fn_call.tok, fn_call.rest>>
                              ELSE <<FALSE, <<>>, fn_call.text>>
        /\ fn_call.form = "plain" => fn_result.value = <<FALSE, <<>>, fn_call.text>>
        /\ fn_result.value[1] =>
            \E i \in DOMAIN fn_call.registry :
                fn_call.registry[i] = fn_result.value[2]

\* "/p work " with nothing after the name routed to work with an empty message
C11_Witness ==
    /\ RouterReturned /\ fn_call.form = "slash"
    /\ fn_call.tok = ProfileWork /\ fn_call.rest = <<>>
    /\ Len(fn_call.text) > Len(SlashP \o ProfileWork)
    /\ fn_result.value = <<TRUE, ProfileWork, <<>>>>

\* the positions of the names of the registry that, with a colon, begin the text
NamedAt(text, registry) ==
    {i \in DOMAIN registry :
        /\ Len(registry[i]) + 1 <= Len(text)
        /\ SubSeq(text, 1, Len(registry[i])) = registry[i]
        /\ text[Len(registry[i]) + 1] = ":"}

\* cleaned is what is left of tail when the whitespace at both ends is taken off
Trimmed(cleaned, tail) ==
    /\ cleaned # <<>> =>
        cleaned[1] \notin Whitespace /\ cleaned[Len(cleaned)] \notin Whitespace
    /\ \E lo \in 0..Len(tail) :
        /\ lo + Len(cleaned) <= Len(tail)
        /\ SubSeq(tail, lo + 1, lo + Len(cleaned)) = cleaned
        /\ \A k \in (1..lo) \cup ((lo + Len(cleaned) + 1)..Len(tail)) :
            tail[k] \in Whitespace

(* C12: when the "/p" form did not match, the router takes the first profile
   in registry order whose "<name>:" begins the text -- the first, not the
   longest -- and returns the text after that prefix with the whitespace at
   both ends trimmed; when the "/p" form matched, the names are not tried. *)
C12_ColonFormFirstInRegistryOrder ==
    RouterReturned =>
        LET text == fn_call.text
            registry == fn_call.registry
            named == NamedAt(text, registry)
        IN IF fn_call.form = "slash" /\ TokenRegistered
           THEN fn_result.value[2] = fn_call.tok
           ELSE IF named = {} THEN ~fn_result.value[1]
           ELSE \E i \in named :
                /\ \A j \in named : i <= j
                /\ fn_result.value[1]
                /\ fn_result.value[2] = registry[i]
                /\ Trimmed(fn_result.value[3],
                           SubSeq(text, Len(registry[i]) + 2, Len(text)))

\* "ops:x: hi" went to ops, registered before ops:x, with the message "x: hi"
C12_Witness ==
    /\ RouterReturned /\ fn_call.form = "colon"
    /\ fn_call.registry = <<ProfileOps, RouterText("ops:x")>>
    /\ fn_call.tok = RouterText("ops:x")
    /\ fn_result.value = <<TRUE, ProfileOps, RouterText("x: hi")>>

\* ----------------------------------------------------- forwarder properties

\* the plain-text handler has gone as far as ensure_conductor_running
Forwarding == h.handler = "handle_message" /\ hpc # "idle" /\ h.ensure.called
EnsureRefused == Forwarding /\ ~h.ensure.exc /\ ~h.ensure.ret
ForwardSendFailed == Forwarding /\ \E i \in SendAt(h.trace) : h.trace[i].rc # 0
\* the texts of the answers made and of those still ahead
Answers == [i \in DOMAIN outbox |-> outbox[i].text] \o h.pending
AnswerRefused == \E i \in DOMAIN outbox : ~outbox[i].delivered

(* C13, as amended: when ensure_conductor_running returns false the handler
   makes exactly one answer, the error text naming the target profile, and
   attempts no send; when the send fails it makes exactly one answer, the
   error text naming the target profile, and delivers no reply chunk; an
   exception leaves the handler in these cases only if the chat transport
   raises while that answer is delivered. *)
C13_FailureAnswersOnce ==
    /\ EnsureRefused =>
        /\ SendAt(h.trace) = {}
        /\ h.trace = h.ensure.trace
        /\ Answers = <<ForwardText("could not start") \o h.target \o ForwardText("check")>>
        /\ Contains(Answers[1], h.target)
        /\ h.exc <=> AnswerRefused
    /\ ForwardSendFailed =>
        /\ Cardinality(SendAt(h.trace)) = 1
        /\ Answers = <<ForwardText("failed to send") \o h.target
                        \o ForwardText("failed tail")>>
        /\ Contains(Answers[1], <<"[">> \o h.target \o <<"]">>)
        /\ h.response = <<>>
        /\ h.exc <=> AnswerRefused

\* the send to the second profile failed and the user was told so
C13_Witness ==
    /\ ForwardSendFailed /\ hpc = "done" /\ ~h.exc
    /\ Len(profiles) = 2 /\ h.target = profiles[2]
    /\ Len(outbox) = 1 /\ outbox[1].delivered

(* C13, as claimed: ... exactly one error reply naming the target is sent, and
   in neither case does an exception leave the handler. *)
C13_FailureAnswersOnceNeverRaises ==
    (EnsureRefused \/ ForwardSendFailed) =>
        /\ Len(Answers) = 1
        /\ Contains(Answers[1], h.target)
        /\ ~h.exc
        /\ hpc = "done" => (Len(outbox) = 1 /\ outbox[1].delivered)

(* C14: for every non-empty text message of the authorized user the target is
   the router's explicit profile when one matched and the first profile of the
   registry otherwise, and the text sent to conductor-<target> is the router's
   cleaned text -- also when an explicit form matched with nothing after it. *)
C14_ForwardsRouterCleanedText ==
    (/\ h.handler = "handle_message" /\ hpc # "idle"
     /\ h.sender = authorized_user /\ h.text # <<>>) =>
        LET parsed == parse_profile_prefix(h.text, profiles)
        IN /\ h.target = IF parsed[1] THEN parsed[2] ELSE profiles[1]
           /\ \A i \in SendAt(h.trace) :
                /\ h.trace[i].session = conductor_session_title(h.target)
                /\ h.trace[i].profile = h.target
                /\ h.trace[i].text = parsed[3]

(* C15: every chat message carrying a reply of the conductor is at most
   TG_MAX_LENGTH characters long as delivered, the "[profile] " tag included. *)
C15_ReplyMessagesWithinLimit ==
    (Forwarding /\ SendAt(h.trace) # {}) =>
        \A i \in DOMAIN Answers : Len(Answers[i]) <= TG_MAX_LENGTH

\* ------------------------------------------------------ splitter properties

SplitReturned == fn_call.fn = "split_message" /\ fn_result.done
Newlines(text) == \A i \in DOMAIN text : text[i] = "\n"

(* C16: every chunk split_message(text, L) returns is at most L characters
   long, and a text of at most L characters comes back as the one chunk equal
   to it. *)
C16_ChunksWithinLimit ==
    SplitReturned =>
        /\ \A i \in DOMAIN fn_result.value :
            Len(fn_result.value[i]) <= fn_call.max_len
        /\ Len(fn_call.text) <= fn_call.max_len => fn_result.value = <<fn_call.text>>

\* a text without a line break in reach was cut into full chunks
C16_Witness ==
    /\ SplitReturned /\ Len(fn_call.text) > 2 * fn_call.max_len
    /\ fn_call.max_len > 1
    /\ \E i \in DOMAIN fn_result.value : Len(fn_result.value[i]) = fn_call.max_len

RECURSIVE Rejoins(_, _, _, _)
\* text is chunks in order with line breaks, and nothing else, put back after
\* each chunk -- after the last one only if trailing allows it -- and each
\* chunk was cut at the last line break within the first max_len characters
\* of what was left, or after max_len characters when there is none
Rejoins(text, chunks, max_len, trailing) ==
    IF chunks = <<>> THEN text = <<>>
    ELSE LET chunk == Head(chunks)
             rest == SubSeq(text, Len(chunk) + 1, Len(text))
             nl == {i \in 1..max_len : i <= Len(text) /\ text[i] = "\n"}
         IN /\ Len(chunk) <= Len(text)
            /\ SubSeq(text, 1, Len(chunk)) = chunk
            /\ Len(text) > max_len =>
                IF nl = {} THEN Len(chunk) = max_len
                ELSE \E i \in nl : (\A j \in nl : j <= i) /\ Len(chunk) = i - 1
            /\ IF Len(chunks) = 1
               THEN IF trailing THEN Newlines(rest) ELSE rest = <<>>
               ELSE \E k \in 0..Len(rest) :
                    /\ Newlines(SubSeq(rest, 1, k))
                    /\ Rejoins(SubSeq(rest, k + 1, Len(rest)), Tail(chunks),
                               max_len, trailing)

(* C17, as amended: the chunks in order are successive substrings of the
   text, and the text is recovered by concatenating them with only line breaks
   (zero or more) put back between consecutive chunks and after the last
   chunk; no other character is dropped, duplicated or reordered; each cut is
   made at the last line break within the first L characters when there is
   one, otherwise after exactly L characters. *)
C17_RoundTripModuloNewlines ==
    SplitReturned =>
        /\ fn_result.value # <<>>
        /\ Rejoins(fn_call.text, fn_result.value, fn_call.max_len, TRUE)

\* a text cut once at a line break and once by force, both letters kept in order
C17_Witness ==
    /\ SplitReturned /\ fn_call.max_len = 2
    /\ fn_call.text = <<"a", "\n", "b", "a", "b">>
    /\ fn_result.value = <<<<"a">>, <<"b", "a">>, <<"b">>>>

(* C17, as claimed: ... with only line breaks put back between consecutive
   chunks. *)
C17_RoundTripNewlinesBetweenChunks ==
    SplitReturned =>
        Rejoins(fn_call.text, fn_result.value, fn_call.max_len, FALSE)

\* ------------------------------------------------------- gateway properties

Aggregated == fn_call.fn = "get_status_summary_all" /\ fn_result.done
RECURSIVE SumOver(_, _, _)
\* the sum of a counter over the summaries of a registry, an absent key being 0
SumOver(registry, per_profile, key) ==
    IF registry = <<>> THEN 0
    ELSE Get(per_profile[Head(registry)], key, 0)
            + SumOver(Tail(registry), per_profile, key)
\* the summaries the status query of the i-th profile can have fetched, given
\* the exit code recorded for it
FetchedAt(i) ==
    {sm.ret.obj : sm \in {x \in get_status_summary(fn_call.registry[i], StatusBehaviours) :
        x.trace = <<fn_result.value.trace[i]>>}}

(* C18: when get_status_summary_all(profiles) returns, each of the five
   counters of totals is the sum over the profiles of that profile's counter,
   an absent key counting as 0, and per_profile maps every profile to the
   summary fetched for it, unmodified. *)
C18_TotalsAreFieldwiseSums ==
    Aggregated /\ ~fn_result.value.exc =>
        LET ret == fn_result.value.ret
        IN /\ DOMAIN ret.totals = {"waiting", "running", "idle", "error", "total"}
           /\ \A k \in DOMAIN ret.totals :
                ret.totals[k] = SumOver(fn_call.registry, ret.per_profile, k)
           /\ DOMAIN ret.per_profile =
                {fn_call.registry[i] : i \in DOMAIN fn_call.registry}
           /\ Len(fn_result.value.trace) = Len(fn_call.registry)
           /\ \A i \in DOMAIN fn_call.registry :
                ret.per_profile[fn_call.registry[i]] \in FetchedAt(i)

\* two profiles, one reporting three sessions and one reporting only an error count
C18_Witness ==
    /\ Aggregated /\ ~fn_result.value.exc
    /\ Len(fn_call.registry) = 2
    /\ fn_result.value.ret.per_profile[ProfileOps] = [error |-> 1]
    /\ fn_result.value.ret.per_profile[ProfileWork] =
        [waiting |-> 1, running |-> 0, idle |-> 2, error |-> 0, total |-> 3]
    /\ fn_result.value.ret.totals =
        [waiting |-> 1, running |-> 0, idle |-> 2, error |-> 1, total |-> 3]

\* the tool's answer to a query is a failure, or not a JSON object
ToolFailed == CompletedProcess(fn_call.tool).returncode # 0
Malformed == CompletedProcess(fn_call.tool).stdout.json.kind # "object"

(* C19: get_status_summary(p) never raises and returns the all-zero summary
   whenever the invocation failed or the output is malformed, and so
   get_status_summary_all completes, with zeros for every profile whose
   invocation failed. *)
C19_SummaryZeroOnFailureNeverRaises ==
    /\ fn_call.fn = "get_status_summary" /\ fn_result.done =>
        /\ ~fn_result.value.exc
        /\ ToolFailed \/ Malformed => fn_result.value.ret = ZeroSummary
    /\ Aggregated =>
        /\ ~fn_result.value.exc
        /\ \A i \in DOMAIN fn_call.registry :
            fn_result.value.trace[i].rc # 0 =>
                fn_result.value.ret.per_profile[fn_call.registry[i]] = ZeroSummary.obj

(* C20: get_session_status(session, p) never raises and returns "error"
   whenever the invocation failed (non-zero exit, timeout, tool not found) or
   stdout is undecodable, not an object, or an object without a status; a
   timeout and a missing tool reach it as a result with exit code 1. *)
C20_StatusErrorOnFailureNeverRaises ==
    fn_call.fn = "get_session_status" /\ fn_result.done =>
        /\ ~fn_result.value.exc
        /\ \/ ToolFailed
           \/ Malformed
           \/ "status" \notin DOMAIN CompletedProcess(fn_call.tool).stdout.json.obj
           => fn_result.value.ret = "error"
        /\ fn_call.tool.kind \in {"timeout", "notfound"} =>
            fn_result.value.trace[1].rc = 1

\* ----------------------------------------------------- lifetime properties

(* C21: with a configured interval of 0 or less the heartbeat task tests the
   interval once, at its start, and ends: it never sleeps or ticks, and no
   profile is evaluated, no status fetched, no message sent to a conductor and
   no alert pushed. *)
C21_NonPositiveIntervalDisables ==
    heartbeat_interval <= 0 =>
        /\ hbpc \in {"start", "done"}
        /\ it = NoIteration
        /\ evaluated = <<>>
        /\ alerts = <<>>

\* the task has returned on an interval of zero
C21_Witness == heartbeat_interval = 0 /\ hbpc = "done"

(* C22: when the polling has ended, by return or by exception, the heartbeat
   task has been cancelled, and main is not over before bot.session.close()
   was awaited (main returns only with the session closed); once the task is
   cancelled the heartbeat runs no more: it holds the thread no longer, has no
   invocation in flight or ahead, and reaches no further alert. *)
C22_ShutdownCancelsAndCloses ==
    /\ main.pc # "polling" => cancel
    /\ MainOver => closed # "no"
    /\ main.pc = "returned" => closed = "yes"
    /\ cancel =>
        /\ thread # "heartbeat"
        /\ ~Busy("heartbeat")
        /\ plan["heartbeat"] = <<>>
        /\ hbpc \in {"start", "sleep", "alert", "done", "cancelled"}

\* the polling raised while the heartbeat slept; the task was cancelled, the
\* session closed, and main is over
C22_Witness ==
    /\ main = [pc |-> "raised", exc |-> TRUE]
    /\ closed = "yes"
    /\ hbpc = "cancelled"

\* ---------------------------------------------------- lifecycle properties

RECURSIVE Invocations(_)
\* the tool invocations of a trace, in order: each as <<op, exit code>>
Invocations(trace) ==
    IF trace = <<>> THEN <<>>
    ELSE (IF Head(trace).op = "sleep" THEN <<>>
          ELSE <<<<Head(trace).op, Head(trace).rc = 0>>>>) \o Invocations(Tail(trace))
\* the orders of invocation of one ensure_conductor_running call
EnsureOrders ==
    {<<<<"show", TRUE>>>>}
    \cup {<<<<"show", ok>>, <<"start", TRUE>>, <<"show", last>>>> : ok, last \in BOOLEAN}
    \cup {<<<<"show", ok>>, <<"start", FALSE>>, <<"add", FALSE>>>> : ok \in BOOLEAN}
    \cup {<<<<"show", ok>>, <<"start", FALSE>>, <<"add", TRUE>>, <<"start", again>>,
            <<"show", last>>>> : ok, again, last \in BOOLEAN}

(* C23: one ensure_conductor_running(p) call invokes the tool only in the
   order status query, start, create and second start (only after the first
   start failed), final status query: at most one create, two starts and two
   status queries; and the call always returns. *)
C23_EnsureOrderAndReturns ==
    fn_call.fn = "ensure_conductor_running" /\ fn_result.done =>
        /\ Invocations(fn_result.value.trace) \in EnsureOrders
        /\ ~fn_result.value.exc

(* C26: send_to_conductor returns (False, "") whenever the invocation exits
   non-zero, times out or the tool is missing, and without wait_for_reply the
   response text returned is empty whatever the tool printed. *)
C26_SendFailureAndNoWaitEmpty ==
    fn_call.fn = "send_to_conductor" /\ fn_result.done =>
        /\ fn_result.value.trace[1].rc # 0 => fn_result.value.ret = <<FALSE, <<>>>>
        /\ ~fn_call.wait_for_reply => fn_result.value.ret[2] = <<>>

\* ------------------------------------------------ heartbeat message properties

\* the message of the iteration's send, and the sessions its listing gave
NudgeSent == it.outcome # "none" /\ SendAt(it.trace) # {}
NudgeText == it.trace[CHOOSE i \in SendAt(it.trace) : TRUE].text
Listed == it.trace[CHOOSE i \in DOMAIN it.trace : it.trace[i].op = "list"].val
RECURSIVE Entries(_, _, _)
\* "<title> (project: <path>)" for each session of the listing, in its order,
\* that is in `status` and is not titled session_title
Entries(sessions, session_title, status) ==
    IF sessions = <<>> THEN <<>>
    ELSE LET x == Head(sessions).obj
             title == IF "title" \in DOMAIN x THEN x.title ELSE Untitled
             path == IF "path" \in DOMAIN x THEN x.path ELSE <<>>
         IN (IF "status" \in DOMAIN x /\ x.status = status /\ title # session_title
             THEN <<title \o ProjectOpen \o path \o <<")">>>> ELSE <<>>)
            \o Entries(Tail(sessions), session_title, status)
\* the message has the list under the label, closed by ". ", or no such label
ListsExactly(text, label, entries) ==
    IF entries = <<>> THEN ~Contains(text, label)
    ELSE Contains(text, <<" ">> \o label \o Join(CommaSpace, entries) \o <<".", " ">>)

(* C24: the message sent in an iteration for profile p lists under "Waiting
   sessions" exactly the listed sessions in status waiting, and under "Error
   sessions" exactly those in status error, whose title is not conductor-p, in
   listing order; the conductor's own session is in neither list, while the
   counts at the head of the message are those of the status summary. *)
C24_DetailsExcludeConductor ==
    NudgeSent =>
        /\ ListsExactly(NudgeText, HbText("waiting sessions"),
                        Entries(Listed, conductor_session_title(it.profile), "waiting"))
        /\ ListsExactly(NudgeText, HbText("error sessions"),
                        Entries(Listed, conductor_session_title(it.profile), "error"))
        /\ ~Contains(NudgeText, conductor_session_title(it.profile))
        /\ StartsWith(NudgeText,
                HbText("head") \o it.profile \o HbText("status")
                    \o Str(Get(it.summary, "waiting", 0)) \o HbText("waiting")
                    \o Str(Get(it.summary, "running", 0)) \o HbText("running")
                    \o Str(Get(it.summary, "idle", 0)) \o HbText("idle")
                    \o Str(Get(it.summary, "error", 0)) \o HbText("error"))

\* the listing held the conductor's own session, waiting, between two others
C24_Witness ==
    /\ NudgeSent /\ Len(Listed) = 3
    /\ Get(Listed[2].obj, "title", <<>>) = conductor_session_title(it.profile)
    /\ Get(Listed[2].obj, "status", "") = "waiting"
    /\ Contains(NudgeText, SessionText("build") \o ProjectOpen \o SessionText("repo"))
    /\ Contains(NudgeText, HbText("error sessions") \o SessionText("db"))

\* ------------------------------------------------------- /restart properties

Restarting == h.handler = "cmd_restart" /\ h.sender = authorized_user
RestartOver == Restarting /\ hpc = "done"
\* the registered profile the text, trimmed, names after the command, else the
\* default
RestartTarget ==
    LET named == {i \in DOMAIN profiles :
                    Strip(h.text) = InboundText("/restart") \o <<" ">> \o profiles[i]}
    IN IF named = {} THEN profiles[1] ELSE profiles[CHOOSE i \in named : TRUE]
\* the restart was invoked once, for the target's conductor, after the progress
\* reply, and one outcome reply follows it
RestartedOnce ==
    /\ Len(h.trace) = 1
    /\ Len(outbox) = 2
    /\ outbox[1].delivered
    /\ IF h.trace[1].rc = 0
       THEN outbox[2].text =
                RestartText("conductor") \o h.target \o RestartText("restarted")
       ELSE \E stderr \in {ErrText("tool"), ErrText("timeout"), ErrText("not found")} :
                outbox[2].text = RestartText("failed") \o Strip(stderr)
RestartShape ==
    /\ h.target = RestartTarget
    /\ Len(h.trace) <= 1
    /\ \A i \in DOMAIN h.trace :
        /\ h.trace[i].op = "restart"
        /\ h.trace[i].session = conductor_session_title(h.target)
        /\ h.trace[i].profile = h.target
    /\ outbox # <<>> =>
        outbox[1].text = RestartText("restarting") \o h.target \o RestartText("dots")
    /\ h.trace # <<>> => outbox # <<>> /\ outbox[1].delivered

(* C25, as amended: /restart from the authorized identity targets the argument
   when it is exactly a registered profile name, else the default profile;
   one progress reply is attempted; once it is delivered exactly one restart
   is invoked, for conductor-<target> with profile <target>, followed by
   exactly one attempted outcome reply (success on exit code 0, else a failure
   reply with the tool's stderr, trimmed); if the progress reply is not
   delivered the handler ends there, with no invocation. *)
C25_RestartOnceAfterProgress ==
    Restarting =>
        /\ RestartShape
        /\ RestartOver =>
            IF outbox[1].delivered THEN RestartedOnce
            ELSE h.trace = <<>> /\ Len(outbox) = 1

\* /restart work with work registered second: the restart failed and was reported
C25_Witness ==
    /\ RestartOver /\ h.text = InboundText("/restart work")
    /\ h.target = ProfileWork /\ Len(h.trace) = 1 /\ h.trace[1].rc # 0
    /\ Len(outbox) = 2 /\ outbox[2].delivered

(* C25, as claimed: ... exactly one restart invocation is issued, preceded by
   one progress reply and followed by exactly one outcome reply. *)
C25_RestartAlwaysInvokedOnce ==
    Restarting => RestartShape /\ (RestartOver => RestartedOnce)

\* ----------------------------------------------------- event-loop properties

\* the invocations of a task's segment that are over include one of `op` for
\* the session of the event
RanBefore(f, op) ==
    \E i \in DOMAIN ran[f.task] :
        /\ ran[f.task][i].op = op
        /\ op = "show" => ran[f.task][i].session = f.event.session
        /\ ran[f.task][i].profile = f.event.profile

(* C27: at most one invocation of the external tool is in flight at any
   moment, and the task it belongs to holds the event-loop thread; a task that
   has begun a segment keeps the thread until the segment is over, so the
   handler's send is in flight only in the segment in which its
   ensure_conductor_running ran, and the heartbeat's send only in the segment
   in which its status query, its listing and its ensure_conductor_running
   ran: the other task takes no step in between. *)
C27_OneInvocationInFlight ==
    /\ Cardinality(inflight) <= 1
    /\ \A f \in inflight :
        /\ thread = f.task
        /\ f.event.op = "send --wait" =>
            /\ RanBefore(f, "show")
            /\ f.task = "heartbeat" => RanBefore(f, "status") /\ RanBefore(f, "list")
    /\ \A t \in {"handler", "heartbeat"} :
        ran[t] # <<>> => thread = t

\* the heartbeat's send is in flight while a handler waits at a message.answer
C27_Witness ==
    /\ plan["handler"] # <<>>
    /\ inflight # {}
    /\ \A f \in inflight : f.task = "heartbeat" /\ f.event.op = "send --wait"

\* the invocations that name a session
NamesSession(event) ==
    event.op \in {"show", "start", "add", "send --wait", "send --no-wait", "restart"}
\* the invocations of the running segment of a task, those over and the one in flight
SegmentOf(t) ==
    {ran[t][i] : i \in DOMAIN ran[t]} \cup {f.event : f \in {g \in inflight : g.task = t}}

(* C28: every invocation that names a conductor session -- show, start, add,
   send, restart, from a handler, the heartbeat or ensure_conductor_running --
   names conductor-<p> and carries the profile flag of the same p, a member of
   the configured registry; and all such invocations of one segment, the ones
   of an ensure_conductor_running call among them, are for one profile. *)
C28_SessionMatchesProfile ==
    /\ \A f \in inflight : NamesSession(f.event) =>
        \E i \in DOMAIN profiles :
            /\ f.event.profile = profiles[i]
            /\ f.event.session = TitlePrefix \o profiles[i]
    /\ \A t \in {"handler", "heartbeat"} :
        \A a, b \in {e \in SegmentOf(t) : NamesSession(e)} : a.profile = b.profile

\* a message routed to the second profile: its conductor is being created
\* after a status query and a failed start for the same profile
C28_Witness ==
    /\ Len(profiles) = 2
    /\ \E f \in inflight :
        /\ f.task = "handler" /\ f.event.op = "add"
        /\ f.event.profile = profiles[2]
    /\ Len(ran["handler"]) = 2


====
